---------------------------- MODULE Spec2Model ----------------------------
(***************************************************************************)
(* A model of the modular-bitfield bit codec: the push/pop accumulators,   *)
(* read_specifier / write_specifier, the Specifier implementations and the *)
(* accessors that #[bitfield] generates.                                   *)
(*                                                                         *)
(* Unsigned integers are modelled as the set of their 1-bit positions      *)
(* (bit 0 = least significant), so a u8 is a subset of 0..7 and a u128 a   *)
(* subset of 0..127; this keeps every storage width exact.  A byte buffer  *)
(* is a sequence of u8; Rust index k is element k + 1.                     *)
(***************************************************************************)
EXTENDS Integers, Sequences, FiniteSets, TLC

VARIABLES
    target,   \* the build: [debug: overflow checks and debug assertions on, usize_bits]
    bytes,    \* the byte buffer (the `bytes` array of a #[bitfield] struct)
    fields,   \* the record's field specifiers, in declaration order
    shadow,   \* ghost: per field, the logical value last stored (zero after new())
    call      \* the last call made and what it returned

vars == <<target, bytes, fields, shadow, call>>

-----------------------------------------------------------------------------
(* Bounds of the model.                                                    *)

\* widths 1..MaxBits are tried at every offset of the buffer
MaxBits == 16
\* length in bytes of the buffer the engine is exercised on
BufLen == 4
\* wide fields (WideBits) are tried at offsets 0..MaxWideOffset
MaxWideOffset == 8

-----------------------------------------------------------------------------
(* Fixed-width unsigned integers as sets of bit positions.                 *)

\* (0x01 << n) - 1
LowMask(n) == 0 .. (n - 1)

\* x << n, truncated to w bits
Shl(x, n, w) == {i + n : i \in x} \cap (0 .. (w - 1))

\* x >> n
Shr(x, n) == {i - n : i \in {j \in x : j >= n}}

\* !x for a u8
Not8(x) == (0 .. 7) \ x

\* count_ones
CountOnes(x) == Cardinality(x)

Pow2(n) == 2 ^ n

\* the bits of a small natural number (below 2^30)
ToBits(n) == {i \in 0 .. 29 : (n \div Pow2(i)) % 2 = 1}

RECURSIVE SumPow(_)
SumPow(s) == IF s = {} THEN 0
             ELSE LET i == CHOOSE j \in s : TRUE IN Pow2(i) + SumPow(s \ {i})

\* the natural number of a bit set (all bits below 30)
ToNat(x) == SumPow(x)

-----------------------------------------------------------------------------
(* The storage integer of a specifier of `bits` bits.                      *)

\* width in bits of <[(); bits] as SpecifierBytes>::Bytes
StorageBits(bits) ==
    IF bits <= 8 THEN 8
    ELSE IF bits <= 16 THEN 16
    ELSE IF bits <= 32 THEN 32
    ELSE IF bits <= 64 THEN 64
    ELSE 128

-----------------------------------------------------------------------------
(* Push and pop accumulators.  A buffer is [ok, bytes]: ok = FALSE once a  *)
(* panic has unwound the call; a pop buffer also carries the popped u8.    *)

PushPanic == [ok |-> FALSE, bytes |-> {}]

\* PushBuffer::<T>::default()
push_buffer == [ok |-> TRUE, bytes |-> {}]

\* push_bits that ORs in all eight bits of `bits`
push_bits_NoMask(t, w, self, amount, bits) ==
    IF ~self.ok THEN self
    ELSE IF t.debug /\ ~(1 <= amount /\ amount <= 8) THEN PushPanic
    ELSE [ok |-> TRUE, bytes |-> Shl(self.bytes, amount % w, w) \cup bits]

\* PushBits::push_bits for a PushBuffer of w bits.  `amount` is a u32, kept
\* modulo 2^32 (a negative number stands for 2^32 + amount).
push_bits(t, w, self, amount, bits) ==
    IF ~self.ok THEN self
    ELSE IF t.debug /\ ~(1 <= amount /\ amount <= 8) THEN PushPanic
    ELSE LET orig_ones == CountOnes(self.bytes)
             \* 8 - amount as u8, wrapping when overflow checks are off
             sub == (8 - (amount % 256)) % 256
             \* 0xFF >> sub on a u8: the shift amount is masked to 3 bits
             bitmask == Shr(0 .. 7, sub % 8)
             pushed == bits \cap bitmask
             new == Shl(self.bytes, amount % w, w) \cup pushed
         IN  IF t.debug /\ CountOnes(pushed) + orig_ones # CountOnes(new)
             THEN PushPanic
             ELSE [ok |-> TRUE, bytes |-> new]

PopPanic(self) == [ok |-> FALSE, bytes |-> self.bytes, res |-> {}]

\* PopBuffer::<T>::from_bytes(bytes)
pop_buffer(new_val) == [ok |-> TRUE, bytes |-> new_val, res |-> {}]

\* pop_bits that leaves the popped bits in the buffer
pop_bits_NoShift(t, w, self, amount) ==
    IF ~self.ok THEN self
    ELSE [ok |-> TRUE, bytes |-> self.bytes,
          res |-> (self.bytes \cap LowMask(amount)) \cap (0 .. 7)]

\* PopBits::pop_bits for a PopBuffer of w bits (the u8 impl differs in its mask)
pop_bits(t, w, self, amount) ==
    IF ~self.ok THEN self
    ELSE IF t.debug /\ ~(1 <= amount /\ amount <= 8) THEN PopPanic(self)
    ELSE LET orig_ones == CountOnes(self.bytes)
             bitmask == IF w = 8
                        THEN LowMask(amount % 16) \cap (0 .. 7)
                        ELSE Shr(0 .. 7, (8 - amount) % w)
             res == (self.bytes \cap bitmask) \cap (0 .. 7)
             rest == IF amount < w THEN Shr(self.bytes, amount) ELSE {}
         IN  IF t.debug /\ CountOnes(res) + CountOnes(rest) # orig_ones
             THEN PopPanic(self)
             ELSE [ok |-> TRUE, bytes |-> rest, res |-> res]

-----------------------------------------------------------------------------
(* read_specifier                                                          *)

\* PushBytesRev that pushes only the last byte of the range
PushBytesRev_LastOnly(t, w, buffer, buf, lo, hi) ==
    IF hi < lo THEN buffer ELSE push_bits(t, w, buffer, 8, buf[hi + 1])

\* for byte in bytes[lo..=hi].iter().rev() { buffer.push_bits(8, *byte) }
RECURSIVE PushBytesRev(_, _, _, _, _, _)
PushBytesRev(t, w, buffer, buf, lo, hi) ==
    IF hi < lo THEN buffer
    ELSE PushBytesRev(t, w, push_bits(t, w, buffer, 8, buf[hi + 1]), buf, lo, hi - 1)

\* (0 - lsb_offset).try_into().unwrap(): a usize subtraction, then usize -> u32
LsbPushAmount(t, lsb_offset) ==
    IF lsb_offset = 0 THEN [ok |-> TRUE, amount |-> 0]
    ELSE IF t.debug THEN [ok |-> FALSE, amount |-> 0]            \* subtract with overflow
    ELSE IF t.usize_bits > 32 THEN [ok |-> FALSE, amount |-> 0]  \* 2^64 - lsb_offset is no u32
    ELSE [ok |-> TRUE, amount |-> 0 - lsb_offset]                \* 2^32 - lsb_offset

\* read_specifier::<T>(bytes, offset), T::BITS = bits; returns [ok, val]
read_specifier(t, buf, offset, bits) ==
    LET w == StorageBits(bits)
        end == offset + bits
        least_sb == offset \div 8
        most_sb == (end - 1) \div 8
        lsb_offset == offset % 8
        msb_offset == IF end % 8 = 0 THEN 8 ELSE end % 8
        whole == PushBytesRev(t, w, push_buffer, buf, least_sb, most_sb)
        msb == IF least_sb # most_sb
               THEN push_bits(t, w, push_buffer, msb_offset, buf[most_sb + 1])
               ELSE push_buffer
        mid == IF most_sb - least_sb >= 2
               THEN PushBytesRev(t, w, msb, buf, least_sb + 1, most_sb - 1)
               ELSE msb
        amt == LsbPushAmount(t, lsb_offset)
        lsb == IF least_sb = most_sb
               THEN push_bits(t, w, mid, bits, Shr(buf[least_sb + 1], lsb_offset))
               ELSE IF ~amt.ok THEN PushPanic
               ELSE push_bits(t, w, mid, amt.amount, Shr(buf[least_sb + 1], lsb_offset))
        buffer == IF lsb_offset = 0 /\ msb_offset = 8 THEN whole ELSE lsb
    IN  [ok |-> buffer.ok, val |-> buffer.bytes]

-----------------------------------------------------------------------------
(* write_specifier                                                         *)

\* for byte in bytes[lo..=hi].iter_mut() { *byte = buffer.pop_bits(8) }
\* st = [buffer, bytes]
RECURSIVE PopBytes(_, _, _, _, _)
PopBytes(t, w, st, lo, hi) ==
    IF hi < lo \/ ~st.buffer.ok THEN st
    ELSE LET p == pop_bits(t, w, st.buffer, 8)
         IN  PopBytes(t, w,
                      [buffer |-> p,
                       bytes |-> IF p.ok THEN [st.bytes EXCEPT ![lo + 1] = p.res]
                                 ELSE st.bytes],
                      lo + 1, hi)

\* StaysSameMask without the bits above a field that ends inside its first byte
StaysSameMask_LowOnly(least_sb, most_sb, lsb_offset, msb_offset) ==
    LowMask(lsb_offset)

\* StaysSameMask without the bits below the field
StaysSameMask_HighOnly(least_sb, most_sb, lsb_offset, msb_offset) ==
    IF least_sb = most_sb /\ msb_offset # 8 THEN Not8(LowMask(msb_offset)) ELSE {}

\* the bits of bytes[least_sb] that write_specifier keeps
StaysSameMask(least_sb, most_sb, lsb_offset, msb_offset) ==
    (IF least_sb = most_sb /\ msb_offset # 8
     THEN Not8(LowMask(msb_offset))
     ELSE {}) \cup LowMask(lsb_offset)

\* PopLeast that stores the popped bits without stays_same
PopLeast_Overwrite(t, w, st, least_sb, lsb_offset, stays_same) ==
    LET p == pop_bits(t, w, st.buffer, 8 - lsb_offset)
    IN  [buffer |-> p,
         bytes |-> IF p.ok
                   THEN [st.bytes EXCEPT ![least_sb + 1] = Shl(p.res, lsb_offset, 8)]
                   ELSE st.bytes]

\* bytes[least_sb] = stays_same | (buffer.pop_bits(8 - lsb_offset) << lsb_offset)
PopLeast(t, w, st, least_sb, lsb_offset, stays_same) ==
    LET p == pop_bits(t, w, st.buffer, 8 - lsb_offset)
    IN  [buffer |-> p,
         bytes |-> IF p.ok
                   THEN [st.bytes EXCEPT ![least_sb + 1] =
                             stays_same \cup Shl(p.res, lsb_offset, 8)]
                   ELSE st.bytes]

\* PopMiddle that leaves the middle bytes as they were
PopMiddle_Skip(t, w, st, least_sb, most_sb) == st

\* if most_sb - least_sb >= 2 { the middle bytes are popped whole }
PopMiddle(t, w, st, least_sb, most_sb) ==
    IF most_sb - least_sb >= 2
    THEN PopBytes(t, w, st, least_sb + 1, most_sb - 1)
    ELSE st

\* PopMost that stores the popped bits over the whole of bytes[most_sb]
PopMost_Overwrite(t, w, st, least_sb, most_sb, msb_offset) ==
    LET p == pop_bits(t, w, st.buffer, msb_offset)
    IN  IF least_sb = most_sb THEN st
        ELSE IF ~p.ok THEN [buffer |-> p, bytes |-> st.bytes]
        ELSE [buffer |-> p, bytes |-> [st.bytes EXCEPT ![most_sb + 1] = p.res]]

\* if least_sb != most_sb { bytes[most_sb] takes the last msb_offset bits }
PopMost(t, w, st, least_sb, most_sb, msb_offset) ==
    LET p == pop_bits(t, w, st.buffer, msb_offset)
    IN  IF least_sb = most_sb THEN st
        ELSE IF ~p.ok THEN [buffer |-> p, bytes |-> st.bytes]
        ELSE IF msb_offset = 8
        THEN [buffer |-> p, bytes |-> [st.bytes EXCEPT ![most_sb + 1] = p.res]]
        ELSE [buffer |-> p,
              bytes |-> [st.bytes EXCEPT ![most_sb + 1] =
                            (st.bytes[most_sb + 1] \cap Not8(LowMask(msb_offset)))
                                \cup p.res]]

\* what write_specifier leaves: whether it returned, and the bytes
Written(st) == [ok |-> st.buffer.ok, bytes |-> st.bytes]

\* write_specifier::<T>(bytes, offset, new_val), T::BITS = bits; returns [ok, bytes]
write_specifier(t, buf, offset, bits, new_val) ==
    LET w == StorageBits(bits)
        end == offset + bits
        least_sb == offset \div 8
        most_sb == (end - 1) \div 8
        lsb_offset == offset % 8
        msb_offset == IF end % 8 = 0 THEN 8 ELSE end % 8
        stays_same == buf[least_sb + 1]
                        \cap StaysSameMask(least_sb, most_sb, lsb_offset, msb_offset)
    IN  IF lsb_offset = 0 /\ msb_offset = 8
        THEN Written(PopBytes(t, w, [buffer |-> pop_buffer(new_val), bytes |-> buf],
                              least_sb, most_sb))
        ELSE Written(
               PopMost(t, w,
                 PopMiddle(t, w,
                   PopLeast(t, w, [buffer |-> pop_buffer(new_val), bytes |-> buf],
                            least_sb, lsb_offset, stays_same),
                   least_sb, most_sb),
                 least_sb, most_sb, msb_offset))

-----------------------------------------------------------------------------
(* Specifiers.  A specifier is [kind, bits, discs]:                        *)
(*   "B"    the integer specifier B<bits>; InOut is the storage integer    *)
(*   "bool" InOut is a BOOLEAN                                             *)
(*   "enum" a #[derive(BitfieldSpecifier)] enum with discriminants discs   *)
(*          in declaration order; InOut is the variant's index in discs    *)
(* A Result is [ok, val, err]: Ok(val), or Err(err) where val carries the  *)
(* error's invalid_bytes; err = "panic" is a panic unwinding the call.     *)

Ok(v) == [ok |-> TRUE, val |-> v, err |-> "none"]
OutOfBounds == [ok |-> FALSE, val |-> {}, err |-> "OutOfBounds"]
InvalidBitPattern(invalid_bytes) ==
    [ok |-> FALSE, val |-> invalid_bytes, err |-> "InvalidBitPattern"]
Panic == [ok |-> FALSE, val |-> {}, err |-> "panic"]

\* a > b on unsigned integers
Gt(a, b) == \E i \in a \ b : \A j \in b \ a : j < i

BSpec(n) == [kind |-> "B", bits |-> n, discs |-> <<>>]
BoolSpec == [kind |-> "bool", bits |-> 1, discs |-> <<>>]
EnumSpec(n, ds) == [kind |-> "enum", bits |-> n, discs |-> ds]

\* IsFullWidth without the power-of-two test
IsFullWidth_AtLeast8(bits) == bits >= 8

\* bits.is_power_of_two() && bits >= 8
IsFullWidth(bits) == bits >= 8 /\ \E k \in 3 .. 7 : bits = Pow2(k)

\* max_value that is ((0x01 as in_out) << bits) - 1 for every width, zero
\* where the shift leaves the storage integer
max_value_ShiftOnly(bits) ==
    IF bits = StorageBits(bits) THEN {} ELSE LowMask(bits)

\* max_value of generate_specifier_for
max_value(bits) ==
    IF IsFullWidth(bits) THEN LowMask(StorageBits(bits)) ELSE LowMask(bits)

\* <B<bits> as Specifier>::into_bytes
B_into_bytes(bits, in) ==
    IF Gt(in, max_value(bits)) THEN OutOfBounds ELSE Ok(in)

\* <B<bits> as Specifier>::from_bytes
B_from_bytes(bits, raw) ==
    IF Gt(raw, max_value(bits)) THEN InvalidBitPattern(raw) ELSE Ok(raw)

\* <bool as Specifier>::into_bytes: input as u8
bool_into_bytes(in) == Ok(IF in THEN {0} ELSE {})

\* from_bytes of bool that takes every nonzero value as true
bool_from_bytes_NonZero(raw) == Ok(raw # {})

\* <bool as Specifier>::from_bytes
bool_from_bytes(raw) ==
    IF raw = {} THEN Ok(FALSE)
    ELSE IF raw = {0} THEN Ok(TRUE)
    ELSE InvalidBitPattern(raw)

\* `Self::Variant as Self::Bytes`: the discriminant cast to the storage integer
DiscriminantAsBytes(spec, i) ==
    ToBits(spec.discs[i]) \cap (0 .. (StorageBits(spec.bits) - 1))

\* The derive registers only the `bits` helper attribute, so attributes.endian
\* is always None and the enum's endianness is Endian::Native.
endian == "Native"

\* swap_bytes of a w-bit integer
SwapBytes(x, w) == {(w - 8 - 8 * (i \div 8)) + (i % 8) : i \in x}

\* endian_to / endian_from of generate_enum (little-endian host for Big/Little)
endian_conv(x, w) == IF endian = "Big" THEN SwapBytes(x, w) ELSE x

\* into_bytes of a derived enum
enum_into_bytes(spec, in) ==
    Ok(endian_conv(DiscriminantAsBytes(spec, in), StorageBits(spec.bits)))

\* from_bytes of an enum that takes the discriminants to be 0, 1, 2, ..
enum_from_bytes_ByIndex(spec, raw) ==
    LET arms == {i \in 1 .. Len(spec.discs) : raw = ToBits(i - 1)}
    IN  IF arms # {}
        THEN Ok(CHOOSE i \in arms : TRUE)
        ELSE InvalidBitPattern(raw)

\* from_bytes of a derived enum: the first arm whose discriminant matches
enum_from_bytes(spec, raw) ==
    LET b == endian_conv(raw, StorageBits(spec.bits))
        arms == {i \in 1 .. Len(spec.discs) : b = DiscriminantAsBytes(spec, i)}
    IN  IF arms # {}
        THEN Ok(CHOOSE i \in arms : \A j \in arms : i <= j)
        ELSE InvalidBitPattern(b)

\* uN::from_le_bytes of a byte array
FromLeBytes(array) ==
    {8 * (k - 1) + i : k \in 1 .. Len(array), i \in 0 .. 7} \cap
        {j \in 0 .. (8 * Len(array) - 1) : (j % 8) \in array[(j \div 8) + 1]}

\* the first len bytes of uN::to_le_bytes
ToLeBytes(x, len) ==
    [k \in 1 .. len |-> {j - 8 * (k - 1) : j \in x \cap (8 * (k - 1) .. 8 * k - 1)}]

\* the specifier of a primitive uN
PrimSpec(n) == [kind |-> "prim", bits |-> n, discs |-> <<>>]

\* <uN as Specifier>::into_bytes: input.to_le_bytes()
prim_into_bytes(bits, in) == Ok(ToLeBytes(in, bits \div 8))

\* <uN as Specifier>::from_bytes: uN::from_le_bytes(bytes)
prim_from_bytes(raw) == Ok(FromLeBytes(raw))

\* <T as Specifier>::into_bytes
into_bytes(spec, in) ==
    CASE spec.kind = "B" -> B_into_bytes(spec.bits, in)
      [] spec.kind = "bool" -> bool_into_bytes(in)
      [] spec.kind = "enum" -> enum_into_bytes(spec, in)
      [] spec.kind = "prim" -> prim_into_bytes(spec.bits, in)

\* <T as Specifier>::from_bytes
from_bytes(spec, raw) ==
    CASE spec.kind = "B" -> B_from_bytes(spec.bits, raw)
      [] spec.kind = "bool" -> bool_from_bytes(raw)
      [] spec.kind = "enum" -> enum_from_bytes(spec, raw)
      [] spec.kind = "prim" -> prim_from_bytes(raw)

-----------------------------------------------------------------------------
(* The accessors #[bitfield] generates.  A field is [spec, offset].        *)

\* offset of field i: the sum of the BITS of the fields declared before it
RECURSIVE FieldOffset(_, _)
FieldOffset(specs, i) ==
    IF i = 1 THEN 0 ELSE FieldOffset(specs, i - 1) + specs[i - 1].bits

\* the fields of a #[bitfield] struct declared with the specifiers specs
Layout(specs) ==
    [i \in 1 .. Len(specs) |-> [spec |-> specs[i], offset |-> FieldOffset(specs, i)]]

\* size in bytes of the struct
NextDivisibleBy8(specs) ==
    LET size == FieldOffset(specs, Len(specs)) + specs[Len(specs)].bits
    IN  ((size - 1) \div 8) + 1

\* <field>_or_err(&self)
get_checked(t, buf, f) ==
    LET bf_read == read_specifier(t, buf, f.offset, f.spec.bits)
    IN  IF bf_read.ok THEN from_bytes(f.spec, bf_read.val) ELSE Panic

\* <field>(&self): <field>_or_err().expect(..)
get(t, buf, f) ==
    LET r == get_checked(t, buf, f) IN IF r.ok THEN r ELSE Panic

\* set_<field>_checked that writes the low bits before it validates
set_checked_WriteFirst(t, buf, f, new_val) ==
    LET raw == into_bytes(f.spec, new_val)
        low == IF f.spec.kind = "B" THEN new_val \cap LowMask(f.spec.bits) ELSE raw.val
        wr == write_specifier(t, buf, f.offset, f.spec.bits, low)
    IN  IF ~raw.ok THEN [ret |-> raw, bytes |-> wr.bytes]
        ELSE [ret |-> Ok({}), bytes |-> wr.bytes]

\* set_<field>_checked(&mut self, new_val); returns [ret, bytes]
set_checked(t, buf, f, new_val) ==
    LET bf_base_bits == StorageBits(f.spec.bits)
        bf_max_value == Shr(LowMask(bf_base_bits), bf_base_bits - f.spec.bits)
        bf_spec_bits == f.spec.bits
        bf_raw_val == into_bytes(f.spec, new_val)
        wr == write_specifier(t, buf, f.offset, f.spec.bits, bf_raw_val.val)
    IN  IF ~bf_raw_val.ok THEN [ret |-> bf_raw_val, bytes |-> buf]
        ELSE IF ~(bf_base_bits = bf_spec_bits \/ ~Gt(bf_raw_val.val, bf_max_value))
        THEN [ret |-> OutOfBounds, bytes |-> buf]
        ELSE IF ~wr.ok THEN [ret |-> Panic, bytes |-> wr.bytes]
        ELSE [ret |-> Ok({}), bytes |-> wr.bytes]

\* set_<field>(&mut self, new_val): set_<field>_checked(new_val).expect(..)
set(t, buf, f, new_val) ==
    LET r == set_checked(t, buf, f, new_val)
    IN  IF r.ret.ok THEN r ELSE [ret |-> Panic, bytes |-> r.bytes]

\* with_<field>_checked(mut self, new_val): self.set_<field>_checked(new_val)?; Ok(self)
with_checked(t, buf, f, new_val) == set_checked(t, buf, f, new_val)

\* with_<field>(mut self, new_val): self.set_<field>(new_val); self
with(t, buf, f, new_val) == set(t, buf, f, new_val)

-----------------------------------------------------------------------------
(* Inputs the model draws.                                                 *)

\* the builds: debug (overflow checks and debug assertions on) or release; the
\* width of usize matters only where an overflow wraps, so in release
Targets ==
    {[debug |-> TRUE, usize_bits |-> 64],
     [debug |-> FALSE, usize_bits |-> 64],
     [debug |-> FALSE, usize_bits |-> 32]}

\* widths beyond MaxBits that are also tried (u32, u64 and u128 storage)
WideBits == {24, 32, 33, 64, 65, 128}

\* storage values of n bits: zero, all ones and both alternating patterns
Values(n) ==
    {{}, LowMask(n), {i \in LowMask(n) : i % 2 = 0}, {i \in LowMask(n) : i % 2 = 1}}

\* every u8
AllU8 == {ToBits(k) : k \in 0 .. 255}

\* storage values of a specifier of n bits, in and out of its range
StorageValues(n) ==
    IF StorageBits(n) = 8 THEN AllU8
    ELSE Values(n) \cup Values(StorageBits(n))
            \cup (IF n < StorageBits(n) THEN {{n}, LowMask(n + 1), {0, n}} ELSE {})

\* prior contents of a buffer of len bytes: 0x00.., 0xFF.., 0xA5 0x5A ..
PriorBuffers(len) ==
    {[k \in 1 .. len |-> {}],
     [k \in 1 .. len |-> 0 .. 7],
     [k \in 1 .. len |-> IF k % 2 = 1 THEN {0, 2, 5, 7} ELSE {1, 3, 4, 6}]}

\* the (offset, bits) pairs the engine is exercised on
EngineFields ==
    {[spec |-> BSpec(n), offset |-> o] :
        n \in 1 .. MaxBits, o \in 0 .. (8 * BufLen - 1)}
    \cup {[spec |-> BSpec(n), offset |-> o] : n \in WideBits, o \in 0 .. MaxWideOffset}

\* bytes needed to hold field f, at least BufLen
BufferLen(f) ==
    LET need == (f.offset + f.spec.bits + 7) \div 8
    IN  IF need > BufLen THEN need ELSE BufLen

NoCall == [op |-> "new", field |-> 0, arg |-> {}, ret |-> Ok({}), before |-> <<>>]

-----------------------------------------------------------------------------
(* The engine on its own: one field at any offset of a buffer of any prior *)
(* content, written with write_specifier and read with read_specifier.     *)

InitEngine ==
    /\ target \in Targets
    /\ \E f \in EngineFields :
         /\ f.offset + f.spec.bits <= 8 * BufferLen(f)
         /\ (f.spec.bits <= MaxBits => f.offset + f.spec.bits <= 8 * BufLen)
         /\ fields = <<f>>
         /\ bytes \in PriorBuffers(BufferLen(f))
    /\ shadow = <<>>
    /\ call = NoCall

EngineWrite ==
    \E v \in Values(fields[1].spec.bits) :
        LET wr == write_specifier(target, bytes, fields[1].offset, fields[1].spec.bits, v)
        IN  /\ bytes' = wr.bytes
            /\ shadow' = <<v>>
            /\ call' = [op |-> "write_specifier", field |-> 1, arg |-> v,
                        ret |-> IF wr.ok THEN Ok({}) ELSE Panic, before |-> bytes]
            /\ UNCHANGED <<target, fields>>

EngineRead ==
    LET rd == read_specifier(target, bytes, fields[1].offset, fields[1].spec.bits)
    IN  /\ call' = [op |-> "read_specifier", field |-> 1, arg |-> {},
                    ret |-> IF rd.ok THEN Ok(rd.val) ELSE Panic, before |-> bytes]
        /\ UNCHANGED <<target, bytes, fields, shadow>>

\* new_val arguments at or above 2^n: bit n alone, and every bit of the
\* storage integer
WideValues(n) == {{n}, LowMask(StorageBits(n))}

\* write_specifier called with a value that does not fit the field
EngineWriteAny ==
    /\ fields[1].spec.bits < StorageBits(fields[1].spec.bits)
    /\ \E v \in WideValues(fields[1].spec.bits) :
        LET wr == write_specifier(target, bytes, fields[1].offset, fields[1].spec.bits, v)
        IN  /\ bytes' = wr.bytes
            /\ shadow' = <<>>
            /\ call' = [op |-> "write_any", field |-> 1, arg |-> v,
                        ret |-> IF wr.ok THEN Ok({}) ELSE Panic, before |-> bytes]
            /\ UNCHANGED <<target, fields>>

NextEngine == EngineWrite \/ EngineRead \/ EngineWriteAny

SpecEngine == InitEngine /\ [][NextEngine]_vars

-----------------------------------------------------------------------------
(* Properties of the engine (under SpecEngine).                            *)

\* bit g of a buffer, bit 0 being the least-significant bit of byte 0
BufBit(buf, g) == (g % 8) \in buf[(g \div 8) + 1]

\* the unsigned integer formed by buffer bits [offset, offset + bits)
FieldBits(buf, offset, bits) == {i \in 0 .. (bits - 1) : BufBit(buf, offset + i)}

\* C1: a value written with write_specifier (in range, any offset, width and
\* prior content) is what read_specifier then returns for the same field.
C1_RoundTrip ==
    (call.op = "read_specifier" /\ shadow # <<>>) => call.ret = Ok(shadow[1])

\* C2: write_specifier with an in-range value completes and leaves every
\* buffer bit outside [offset, offset + bits) as it was, the non-field bits of
\* a partly occupied first or last byte included.
C2_WriteFrame ==
    call.op = "write_specifier" =>
        /\ call.ret = Ok({})
        /\ Len(bytes) = Len(call.before)
        /\ \A g \in 0 .. (8 * Len(bytes) - 1) :
             (g < fields[1].offset \/ g >= fields[1].offset + fields[1].spec.bits)
                 => (BufBit(bytes, g) <=> BufBit(call.before, g))

\* a write into a field strictly inside one byte, and one whose first and last
\* bytes are both shared, over prior content with 1-bits around the field
C2_Witness ==
    /\ call.op = "write_specifier"
    /\ call.before # bytes
    /\ fields[1].offset % 8 # 0
    /\ (fields[1].offset + fields[1].spec.bits) % 8 # 0
    /\ fields[1].spec.bits > 8
    /\ BufBit(call.before, fields[1].offset - 1)
    /\ BufBit(call.before, fields[1].offset + fields[1].spec.bits)
    /\ call.arg = {}

\* C3: read_specifier returns exactly the unsigned integer formed by buffer
\* bits [offset, offset + bits), whatever the other bits are (so it is below
\* 2^bits).
C3_ReadExact ==
    call.op = "read_specifier" =>
        call.ret = Ok(FieldBits(bytes, fields[1].offset, fields[1].spec.bits))

\* C4: read_specifier is total: for every field inside the buffer it returns
\* a value and does not panic.
C4_ReadTotal ==
    call.op = "read_specifier" => call.ret.err # "panic"

\* C13: write_specifier never fails: for every offset and width whose span
\* lies inside the buffer and every value below 2^bits it completes without
\* a panic (no overflow, no failed pop_bits assertion), and no bit of the
\* value is lost: the field's bits are then the value's.
C13_WriteTotal ==
    call.op = "write_specifier" =>
        /\ call.ret.ok
        /\ FieldBits(bytes, fields[1].offset, fields[1].spec.bits) = call.arg

\* a checked build writes an all-ones u128 across 17 bytes
C13_Witness ==
    /\ call.op = "write_specifier"
    /\ target.debug
    /\ fields[1].spec.bits = 128
    /\ fields[1].offset % 8 # 0
    /\ call.arg = LowMask(128)
    /\ call.ret.ok

\* bytes first_byte..=last_byte of the field, as a byte array
FieldSlice(buf, offset, bits) ==
    SubSeq(buf, (offset \div 8) + 1, ((offset + bits - 1) \div 8) + 1)

GeneralMultiByte(offset, bits) ==
    /\ offset \div 8 # (offset + bits - 1) \div 8
    /\ ~(offset % 8 = 0 /\ (offset + bits) % 8 = 0)

\* the amounts read_specifier hands to push_bits in that case, in order: for
\* the last byte, each middle byte and the first byte; [ok, amounts]
PushAmounts(t, offset, bits) ==
    LET least_sb == offset \div 8
        most_sb == (offset + bits - 1) \div 8
        msb_offset == IF (offset + bits) % 8 = 0 THEN 8 ELSE (offset + bits) % 8
    IN  [ok |-> LsbPushAmount(t, offset % 8).ok,
         amounts |-> <<msb_offset>> \o [k \in 1 .. (most_sb - least_sb - 1) |-> 8]
                        \o <<LsbPushAmount(t, offset % 8).amount>>]

RECURSIVE SumSeq(_)
SumSeq(q) == IF q = <<>> THEN 0 ELSE Head(q) + SumSeq(Tail(q))

\* C25: when read_specifier reads a field that spans bytes in the general
\* case, the last amount it pushes is 8 - lsb_offset and the amounts pushed
\* sum to the field's width.
C25_LastChunk ==
    (call.op = "read_specifier"
        /\ GeneralMultiByte(fields[1].offset, fields[1].spec.bits)) =>
       LET pa == PushAmounts(target, fields[1].offset, fields[1].spec.bits)
       IN  /\ pa.ok
           /\ pa.amounts[Len(pa.amounts)] = 8 - (fields[1].offset % 8)
           /\ SumSeq(pa.amounts) = fields[1].spec.bits

\* the field lies inside one byte and touches neither end of it
InsideOneByte(offset, bits) == offset % 8 > 0 /\ (offset % 8) + bits < 8

\* C26: a write into a field inside one byte that touches neither end keeps
\* the bits of that byte below the field and at or above its end, makes the
\* field's bits the value, and leaves every other byte alone.
C26_InteriorFrame ==
    (call.op = "write_specifier"
        /\ InsideOneByte(fields[1].offset, fields[1].spec.bits)) =>
       LET k == (fields[1].offset \div 8) + 1
           lsb == fields[1].offset % 8
           end == lsb + fields[1].spec.bits
       IN  /\ call.ret.ok
           /\ bytes[k] \cap (0 .. (lsb - 1)) = call.before[k] \cap (0 .. (lsb - 1))
           /\ bytes[k] \cap (end .. 7) = call.before[k] \cap (end .. 7)
           /\ {i - lsb : i \in bytes[k] \cap (lsb .. (end - 1))} = call.arg
           /\ \A m \in 1 .. Len(bytes) : m # k => bytes[m] = call.before[m]

\* zero was written into such a field of a byte whose bits around and inside
\* the field were set
C26_Witness ==
    /\ call.op = "write_specifier"
    /\ InsideOneByte(fields[1].offset, fields[1].spec.bits)
    /\ fields[1].spec.bits >= 2
    /\ call.arg = {}
    /\ call.before[(fields[1].offset \div 8) + 1] = 0 .. 7
    /\ bytes[(fields[1].offset \div 8) + 1] # 0 .. 7

\* the field ends inside the byte it starts in
EndsInsideFirstByte(offset, bits) == (offset % 8) + bits < 8

\* C27 as stated: a write into a field contained in one byte changes no bit
\* of that byte at or above the field's end, whatever the value.
C27_NoSpill ==
    (call.op \in {"write_specifier", "write_any"}
        /\ EndsInsideFirstByte(fields[1].offset, fields[1].spec.bits)) =>
       LET k == (fields[1].offset \div 8) + 1
           end == (fields[1].offset % 8) + fields[1].spec.bits
       IN  bytes[k] \cap (end .. 7) = call.before[k] \cap (end .. 7)

\* C27 amended: such a write takes 8 - lsb_offset bits from the value, not
\* the field's width: the byte keeps its bits outside the field, and the
\* value's bits from the field's width up to 8 - lsb_offset are ORed into
\* the bits at or above the field's end; these stay as they were exactly
\* when the value has none of those bits.
C27_SpillsAboveField ==
    (call.op \in {"write_specifier", "write_any"}
        /\ EndsInsideFirstByte(fields[1].offset, fields[1].spec.bits)) =>
       LET k == (fields[1].offset \div 8) + 1
           lsb == fields[1].offset % 8
           end == lsb + fields[1].spec.bits
           spill == {i + lsb : i \in call.arg \cap (fields[1].spec.bits .. (7 - lsb))}
       IN  /\ call.ret.ok
           /\ bytes[k] \cap (end .. 7) = (call.before[k] \cap (end .. 7)) \cup spill
           /\ bytes[k] \cap (0 .. (lsb - 1)) = call.before[k] \cap (0 .. (lsb - 1))
           /\ {i - lsb : i \in bytes[k] \cap (lsb .. (end - 1))}
                 = call.arg \cap (0 .. (fields[1].spec.bits - 1))

\* a value with bit `bits` set was written into a field inside one byte and
\* set the bit above the field, which was clear
C27_Witness ==
    /\ call.op = "write_any"
    /\ EndsInsideFirstByte(fields[1].offset, fields[1].spec.bits)
    /\ call.arg = {fields[1].spec.bits}
    /\ call.before[(fields[1].offset \div 8) + 1] = {}
    /\ bytes[(fields[1].offset \div 8) + 1] = {(fields[1].offset % 8) + fields[1].spec.bits}

-----------------------------------------------------------------------------
(* A #[bitfield] struct and its generated accessors.                       *)

\* enum Mode { A = 0b00, B = 0b01, C = 0b10, D = 0b11 }
Mode == EnumSpec(2, <<0, 1, 2, 3>>)

\* the structs of the test suite: EdgeCaseBytes, MyFourBytes, StatFlag,
\* SomeMoreBytes
Layouts ==
    {<<BSpec(9), BSpec(6), BSpec(13), BSpec(4)>>,
     <<BoolSpec, BSpec(2), BSpec(13), BSpec(16)>>,
     <<BoolSpec, BoolSpec, BSpec(4), Mode>>,
     <<BSpec(47), BSpec(65), BSpec(128)>>}

\* the values the tests store in a field of n bits
TestValues(n) ==
    CASE n = 4 -> {ToBits(14)}
      [] n = 6 -> {ToBits(42)}
      [] n = 9 -> {ToBits(391)}
      [] n = 13 -> {ToBits(444), ToBits(5749)}
      [] n = 16 -> {ToBits(1337)}
      [] n = 47 -> {ToBits(1)}
      [] n = 65 -> {ToBits(3)}
      [] n = 128 -> {ToBits(42)}
      [] n = 2 -> {ToBits(3)}
      [] OTHER -> {}

\* the new_val arguments tried on a field: zero, the tests' values (else the
\* largest value) and, where the storage integer is wider than the field, 2^bits
SetterInputs(spec) ==
    CASE spec.kind = "B" ->
            {{}} \cup (IF TestValues(spec.bits) # {} THEN TestValues(spec.bits)
                      ELSE {LowMask(spec.bits)})
                \cup (IF spec.bits < StorageBits(spec.bits) THEN {{spec.bits}} ELSE {})
      [] spec.kind = "bool" -> BOOLEAN
      [] spec.kind = "enum" -> 1 .. Len(spec.discs)

\* the logical value of an all-zero field
ZeroValue(spec) ==
    CASE spec.kind = "B" -> {}
      [] spec.kind = "bool" -> FALSE
      [] spec.kind = "enum" -> CHOOSE i \in 1 .. Len(spec.discs) : spec.discs[i] = 0

\* Self::new(): all bytes zero
new(specs) == [k \in 1 .. NextDivisibleBy8(specs) |-> {}]

Init ==
    /\ target \in Targets
    /\ \E specs \in Layouts :
         /\ fields = Layout(specs)
         /\ bytes = new(specs)
         /\ shadow = [i \in 1 .. Len(specs) |-> ZeroValue(specs[i])]
    /\ call = NoCall

\* what a setter call that returned r leaves behind
AfterSetter(name, i, v, r) ==
    /\ bytes' = r.bytes
    /\ shadow' = IF r.ret.ok THEN [shadow EXCEPT ![i] = v]
                 ELSE shadow
    /\ call' = [op |-> name, field |-> i, arg |-> v, ret |-> r.ret, before |-> bytes]
    /\ UNCHANGED <<target, fields>>

AfterGetter(name, i, r) ==
    /\ call' = [op |-> name, field |-> i, arg |-> {}, ret |-> r, before |-> bytes]
    /\ UNCHANGED <<target, bytes, fields, shadow>>

SetChecked ==
    \E i \in 1 .. Len(fields) : \E v \in SetterInputs(fields[i].spec) :
        AfterSetter("set_checked", i, v, set_checked(target, bytes, fields[i], v))

Set ==
    \E i \in 1 .. Len(fields) : \E v \in SetterInputs(fields[i].spec) :
        AfterSetter("set", i, v, set(target, bytes, fields[i], v))

WithChecked ==
    \E i \in 1 .. Len(fields) : \E v \in SetterInputs(fields[i].spec) :
        AfterSetter("with_checked", i, v, with_checked(target, bytes, fields[i], v))

With ==
    \E i \in 1 .. Len(fields) : \E v \in SetterInputs(fields[i].spec) :
        AfterSetter("with", i, v, with(target, bytes, fields[i], v))

GetChecked ==
    \E i \in 1 .. Len(fields) :
        AfterGetter("get_checked", i, get_checked(target, bytes, fields[i]))

Get ==
    \E i \in 1 .. Len(fields) :
        AfterGetter("get", i, get(target, bytes, fields[i]))

Next == SetChecked \/ Set \/ WithChecked \/ With \/ GetChecked \/ Get

Spec == Init /\ [][Next]_vars

-----------------------------------------------------------------------------
(* Properties of the generated accessors (under Spec).                     *)

\* a + b on unsigned integers of any width
RECURSIVE Add(_, _)
Add(a, b) ==
    IF b = {} THEN a ELSE Add((a \ b) \cup (b \ a), {i + 1 : i \in a \cap b})

\* the number a logical value stands for: an integer itself, false/true as
\* 0/1, a variant as its discriminant
ValueOf(spec, v) ==
    CASE spec.kind = "B" -> v
      [] spec.kind = "bool" -> IF v THEN {0} ELSE {}
      [] spec.kind = "enum" -> ToBits(spec.discs[v])

\* the sum over fields 1..n of value_i * 2^offset_i
RECURSIVE RecordSum(_)
RecordSum(n) ==
    IF n = 0 THEN {}
    ELSE Add(RecordSum(n - 1),
             {b + fields[n].offset : b \in ValueOf(fields[n].spec, shadow[n])})

\* the little-endian encoding of x in len bytes
LeBytes(x, len) ==
    [k \in 1 .. len |-> {i - 8 * (k - 1) : i \in {j \in x : 8 * (k - 1) <= j /\ j < 8 * k}}]

\* C5: the bytes of a record made by new() and changed by its setters are the
\* little-endian encoding of the sum of value_i * 2^offset_i over its fields
\* (a field not yet set counting as 0), so after every field has been set
\* field i occupies bits [offset_i, offset_i + width_i).
C5_Layout ==
    /\ bytes = LeBytes(RecordSum(Len(fields)), Len(bytes))
    /\ \A b \in RecordSum(Len(fields)) : b < 8 * Len(bytes)

\* a: bool = true, b: B2 = 3, c: B13 = 444, d: B16 = 1337 give [231, 13, 57, 5]
C5_Witness ==
    /\ Len(fields) = 4
    /\ fields[1].spec = BoolSpec
    /\ fields[4].spec = BSpec(16)
    /\ shadow = <<TRUE, ToBits(3), ToBits(444), ToBits(1337)>>
    /\ bytes = <<ToBits(231), ToBits(13), ToBits(57), ToBits(5)>>

\* C6: a getter returns the value most recently set for its field, and 0 for
\* a field never set.
C6_GetLastSet ==
    call.op \in {"get", "get_checked"} => call.ret = Ok(shadow[call.field])

\* C7: a checked setter that rejects its value with OutOfBounds leaves the
\* buffer as it was, so every getter returns what it returned before.
C7_RejectKeepsBuffer ==
    (call.op \in {"set_checked", "with_checked"} /\ call.ret = OutOfBounds) =>
        /\ bytes = call.before
        /\ \A i \in 1 .. Len(fields) :
             get_checked(target, bytes, fields[i])
                 = get_checked(target, call.before, fields[i])

\* a rejected set_<field>_checked on a record that already holds 1-bits in the
\* rejected field
C7_Witness ==
    /\ call.op = "set_checked"
    /\ call.ret = OutOfBounds
    /\ shadow[call.field] # {}
    /\ bytes = call.before

-----------------------------------------------------------------------------
(* The Specifier implementations on their own: one into_bytes or           *)
(* from_bytes call on a specifier.                                         *)

\* enum TriggerMode { Edge = 0, Level = 1 }
TriggerMode == EnumSpec(1, <<0, 1>>)

\* enum DeliveryMode { Fixed = 0b000, .., External = 0b111 }
DeliveryMode == EnumSpec(3, <<0, 1, 2, 3, 4, 5, 6, 7>>)

\* #[bits = 4] enum SmallPrime { Two, Three, Five, Seven, Eleven, Thirteen }
SmallPrime == EnumSpec(4, <<2, 3, 5, 7, 11, 13>>)

\* #[bits = 2] enum with discriminants 0, 1, 2
ThreeOfFour == EnumSpec(2, <<0, 1, 2>>)

\* #[bits = 9] enum held in a u16, discriminants out of order
WideEnum == EnumSpec(9, <<256, 0, 511, 1>>)

Specifiers ==
    {BSpec(n) : n \in (1 .. MaxBits) \cup WideBits}
    \cup {BoolSpec, Mode, TriggerMode, DeliveryMode, SmallPrime, ThreeOfFour, WideEnum}
    \cup {PrimSpec(n) : n \in {8, 16, 32, 64, 128}}

\* the logical values tried on into_bytes
InOutValues(spec) ==
    CASE spec.kind = "B" -> StorageValues(spec.bits)
      [] spec.kind = "bool" -> BOOLEAN
      [] spec.kind = "enum" -> 1 .. Len(spec.discs)
      [] spec.kind = "prim" -> StorageValues(spec.bits)

\* the Bytes values tried on from_bytes: of a primitive, byte arrays
BytesValues(spec) ==
    IF spec.kind = "prim"
    THEN {ToLeBytes(v, spec.bits \div 8) : v \in StorageValues(spec.bits)}
    ELSE StorageValues(spec.bits)

InitSpecifier ==
    /\ target \in Targets
    /\ \E spec \in Specifiers : fields = <<[spec |-> spec, offset |-> 0]>>
    /\ bytes = <<>>
    /\ shadow = <<>>
    /\ call = NoCall

IntoBytes ==
    /\ call.op = "new"
    /\ \E v \in InOutValues(fields[1].spec) :
         call' = [op |-> "into_bytes", field |-> 1, arg |-> v,
                  ret |-> into_bytes(fields[1].spec, v), before |-> bytes]
    /\ UNCHANGED <<target, bytes, fields, shadow>>

FromBytes ==
    /\ call.op = "new"
    /\ \E raw \in BytesValues(fields[1].spec) :
         call' = [op |-> "from_bytes", field |-> 1, arg |-> raw,
                  ret |-> from_bytes(fields[1].spec, raw), before |-> bytes]
    /\ UNCHANGED <<target, bytes, fields, shadow>>

NextSpecifier == IntoBytes \/ FromBytes

SpecSpecifier == InitSpecifier /\ [][NextSpecifier]_vars

\* v >= 2^n
AtLeastPow2(v, n) == \E i \in v : i >= n

\* C8: into_bytes of B<n> returns OutOfBounds for every value >= 2^n and the
\* value itself for every value < 2^n; no value of the storage integer is
\* rejected exactly when n is the storage integer's full width.
C8_IntoBytesBounds ==
    LET n == fields[1].spec.bits IN
    (Len(fields) = 1 /\ fields[1].spec.kind = "B") =>
        /\ call.op = "into_bytes" =>
             call.ret = IF AtLeastPow2(call.arg, n) THEN OutOfBounds ELSE Ok(call.arg)
        /\ (\A v \in StorageValues(n) : B_into_bytes(n, v).ok) <=> n = StorageBits(n)

\* B9 rejects 2^9, which its u16 storage can hold
C8_Witness ==
    /\ fields[1].spec = BSpec(9)
    /\ call.op = "into_bytes"
    /\ call.arg = {9}
    /\ call.ret = OutOfBounds

\* C9: from_bytes of bool returns false for 0, true for 1 and
\* InvalidBitPattern for every other raw value.
C9_BoolFromBytes ==
    (call.op = "from_bytes" /\ fields[1].spec.kind = "bool") =>
        call.ret = IF ToNat(call.arg) = 0 THEN Ok(FALSE)
                   ELSE IF ToNat(call.arg) = 1 THEN Ok(TRUE)
                   ELSE InvalidBitPattern(call.arg)

C9_Witness ==
    /\ fields[1].spec.kind = "bool"
    /\ call.op = "from_bytes"
    /\ call.arg = ToBits(2)
    /\ call.ret = InvalidBitPattern(ToBits(2))

C22_FullWidthFromBytes ==
    (call.op = "from_bytes"
        /\ fields[1].spec.kind \in {"B", "prim"}
        /\ fields[1].spec.bits = StorageBits(fields[1].spec.bits)) =>
       call.ret.ok /\ call.ret.err # "InvalidBitPattern"

\* B16 took 0xFFFF
C22_Witness ==
    /\ fields[1].spec = BSpec(16)
    /\ call.op = "from_bytes"
    /\ call.arg = LowMask(16)
    /\ call.ret = Ok(LowMask(16))

-----------------------------------------------------------------------------
(* A #[bitfield] struct as a value: its byte conversions, and its          *)
(* Specifier impl when #[derive(BitfieldSpecifier)] is applied as well.    *)
(* Its InOut is the struct, held as its byte array.                        *)

\* a #[bitfield(bits = n, filled = ..)] struct used as a specifier
StructSpec(n, filled) ==
    [kind |-> IF filled THEN "struct" ELSE "unfilled", bits |-> n, discs |-> <<>>]

\* (((value - 1) / 8) + 1): the number of bytes that hold `value` bits
BytesFor(value) == ((value - 1) \div 8) + 1

\* ArrayBytesConversion::array_into_bytes for [(); size]
array_into_bytes(array) == FromLeBytes(array)

\* ArrayBytesConversion::bytes_into_array for [(); size]; [ok, array].  The
\* impls for the sizes that are no primitive's width assert that the bytes
\* they cut off are zero.
bytes_into_array(t, size, raw) ==
    IF size = StorageBits(size) THEN [ok |-> TRUE, array |-> ToLeBytes(raw, size \div 8)]
    ELSE IF t.debug /\ \E j \in raw : j >= size THEN [ok |-> FALSE, array |-> <<>>]
    ELSE [ok |-> TRUE, array |-> ToLeBytes(raw, size \div 8)]

\* <Struct as Specifier>::into_bytes
struct_into_bytes(spec, value) == Ok(array_into_bytes(value))

\* (0x01 as Self::Bytes).checked_shl(Self::BITS as u32).unwrap_or(MAX)
StructMaxValue(bits) ==
    IF bits < StorageBits(bits) THEN {bits} ELSE LowMask(StorageBits(bits))

\* <Struct as Specifier>::from_bytes
struct_from_bytes(t, spec, raw) ==
    IF Gt(raw, StructMaxValue(spec.bits)) THEN InvalidBitPattern(raw)
    ELSE LET conv == bytes_into_array(t, 8 * BytesFor(spec.bits), raw)
         IN  IF conv.ok THEN Ok(conv.array) ELSE Panic

\* Struct::into_bytes(self): the byte array
record_into_bytes(spec, value) == Ok(value)

\* Struct::from_bytes(bytes).  With filled = false the last byte is compared
\* with 0x01 << (8 - (bytes * 8 - size)), a shift of a u8: by 8 it overflows
\* (a panic with overflow checks, a shift by 0 without them).
record_from_bytes(t, spec, array) ==
    LET n == BytesFor(spec.bits)
        shift == 8 - (n * 8 - spec.bits)
    IN  IF spec.kind = "struct" THEN Ok(array)
        ELSE IF shift >= 8 /\ t.debug THEN Panic
        ELSE IF ~Gt({shift % 8}, array[n]) THEN OutOfBounds
        ELSE Ok(array)

-----------------------------------------------------------------------------
(* The conversions of struct specifiers, each applied once to a drawn      *)
(* input.                                                                  *)

\* the widths of the tests' unfilled structs that a bound does not reach
WideStructBits == {23, 32}

\* structs of the test suite by width: filled = false (Unfilled, RegularBf,
\* UnfilledSpecifier, PackedData, SignIntegerLong, ..) and filled (Header, ..)
StructSpecs ==
    {StructSpec(n, FALSE) : n \in (1 .. MaxBits) \cup WideStructBits}
    \cup {StructSpec(n, TRUE) : n \in {4, 8, 16, 24}}

\* byte arrays of len bytes: every last byte, over zero and all-ones bytes
RecordArrays(len) ==
    {[k \in 1 .. len |-> IF k = len THEN last ELSE fill] :
        last \in AllU8, fill \in {{}, 0 .. 7}}

InitStruct ==
    /\ target \in Targets
    /\ \E spec \in StructSpecs : fields = <<[spec |-> spec, offset |-> 0]>>
    /\ bytes = <<>>
    /\ shadow = <<>>
    /\ call = NoCall

StructFromStorage ==
    /\ call.op = "new"
    /\ \E raw \in StorageValues(fields[1].spec.bits) :
         call' = [op |-> "from_storage", field |-> 1, arg |-> raw,
                  ret |-> struct_from_bytes(target, fields[1].spec, raw),
                  before |-> bytes]
    /\ UNCHANGED <<target, bytes, fields, shadow>>

StructIntoStorage ==
    /\ call.op = "new"
    /\ \E array \in RecordArrays(BytesFor(fields[1].spec.bits)) :
         call' = [op |-> "to_storage", field |-> 1, arg |-> array,
                  ret |-> struct_into_bytes(fields[1].spec, array),
                  before |-> bytes]
    /\ UNCHANGED <<target, bytes, fields, shadow>>

RecordFromBytes ==
    /\ call.op = "new"
    /\ \E array \in RecordArrays(BytesFor(fields[1].spec.bits)) :
         call' = [op |-> "from_bytes", field |-> 1, arg |-> array,
                  ret |-> record_from_bytes(target, fields[1].spec, array),
                  before |-> bytes]
    /\ UNCHANGED <<target, bytes, fields, shadow>>

RecordIntoBytes ==
    /\ call.op = "from_bytes" /\ call.ret.ok
    /\ call' = [op |-> "into_bytes", field |-> 1, arg |-> call.ret.val,
                ret |-> record_into_bytes(fields[1].spec, call.ret.val),
                before |-> bytes]
    /\ UNCHANGED <<target, bytes, fields, shadow>>

NextStruct == StructFromStorage \/ StructIntoStorage \/ RecordFromBytes \/ RecordIntoBytes

SpecStruct == InitStruct /\ [][NextStruct]_vars

\* C11: from_storage of an unfilled struct specifier of BITS bits returns
\* InvalidBitPattern for every raw value with a bit at position >= BITS, and
\* the struct holding the raw value's bytes for every raw value below 2^BITS.
C11_NestedFromStorage ==
    (fields[1].spec.kind = "unfilled" /\ call.op = "from_storage") =>
        call.ret = IF AtLeastPow2(call.arg, fields[1].spec.bits)
                   THEN InvalidBitPattern(call.arg)
                   ELSE Ok(ToLeBytes(call.arg, BytesFor(fields[1].spec.bits)))

\* C12: from_bytes of a struct with filled = false returns OutOfBounds iff
\* the bytes have a bit set at a position >= the struct's bit width, and
\* otherwise the struct holding exactly those bytes.
C12_UnfilledFromBytes ==
    (fields[1].spec.kind = "unfilled" /\ call.op = "from_bytes") =>
        call.ret = IF AtLeastPow2(FromLeBytes(call.arg), fields[1].spec.bits)
                   THEN OutOfBounds
                   ELSE Ok(call.arg)

-----------------------------------------------------------------------------
(* benches/handwritten.rs: the struct Generated and the hand-written       *)
(* accessors of Handwritten, data being its [u8; 8].  A setter returns     *)
(* [ok, data], ok = FALSE when its assert! fails.                          *)

\* #[bitfield] pub struct Generated { a: B9, b: B6, c: B13, d: B1, e: B3, f: B32 }
Generated == <<BSpec(9), BSpec(6), BSpec(13), BSpec(1), BSpec(3), BSpec(32)>>

Handwritten_new == [k \in 1 .. 8 |-> {}]

Handwritten_a(data) == FromLeBytes(<<data[1], data[2] \cap {0}>>)

Handwritten_set_a(data, new_val) ==
    LET le == ToLeBytes(new_val, 2)
    IN  [ok |-> ~AtLeastPow2(new_val, 9),
         data |-> [data EXCEPT ![1] = le[1],
                               ![2] = (data[2] \cap Not8({0})) \cup (le[2] \cap {0})]]

Handwritten_b(data) == Shr(data[2], 1) \cap LowMask(6)

Handwritten_set_b(data, new_val) ==
    [ok |-> ~AtLeastPow2(new_val, 6),
     data |-> [data EXCEPT ![2] = (data[2] \cap {0, 7}) \cup Shl(new_val, 1, 8)]]

Handwritten_c(data) ==
    Shr(data[2], 7) \cup Shl(data[3], 1, 16) \cup Shl(data[4] \cap LowMask(4), 9, 16)

Handwritten_set_c(data, new_val) ==
    [ok |-> ~AtLeastPow2(new_val, 13),
     data |-> [data EXCEPT
                 ![2] = (data[2] \cap Not8({7})) \cup (Shl(new_val \cap {0}, 7, 16) \cap (0 .. 7)),
                 ![3] = Shr(new_val, 1) \cap (0 .. 7),
                 ![4] = (data[4] \cap Not8(LowMask(4))) \cup (Shr(new_val, 9) \cap LowMask(4))]]

Handwritten_d(data) == Shr(data[4], 4) \cap {0}

Handwritten_set_d(data, new_val) ==
    [ok |-> TRUE,
     data |-> [data EXCEPT ![4] = (data[4] \cap Not8({4})) \cup Shl(new_val \cap {0}, 4, 8)]]

Handwritten_e(data) == Shr(data[4], 5) \cap LowMask(3)

Handwritten_set_e(data, new_val) ==
    [ok |-> ~AtLeastPow2(new_val, 3),
     data |-> [data EXCEPT ![4] = (data[4] \cap {5, 6, 7})
                                    \cup Shl(new_val \cap LowMask(3), 5, 8)]]

Handwritten_f(data) == FromLeBytes(<<data[5], data[6], data[7], data[8]>>)

Handwritten_set_f(data, new_val) ==
    LET le_bytes == ToLeBytes(new_val, 4)
    IN  [ok |-> ~AtLeastPow2(new_val, 32),
         data |-> [k \in 1 .. 8 |-> IF k >= 5 THEN le_bytes[k - 4] ELSE data[k]]]

\* the getter and the setter of the i-th field
HandwrittenGet(data, i) ==
    CASE i = 1 -> Handwritten_a(data)
      [] i = 2 -> Handwritten_b(data)
      [] i = 3 -> Handwritten_c(data)
      [] i = 4 -> Handwritten_d(data)
      [] i = 5 -> Handwritten_e(data)
      [] i = 6 -> Handwritten_f(data)

HandwrittenSet(data, i, new_val) ==
    CASE i = 1 -> Handwritten_set_a(data, new_val)
      [] i = 2 -> Handwritten_set_b(data, new_val)
      [] i = 3 -> Handwritten_set_c(data, new_val)
      [] i = 4 -> Handwritten_set_d(data, new_val)
      [] i = 5 -> Handwritten_set_e(data, new_val)
      [] i = 6 -> Handwritten_set_f(data, new_val)

\* in-range values for the i-th field: zero, the tests' all-ones value and,
\* for the fields that span bytes unaligned, a mixed value
BenchValues(i) ==
    LET n == Generated[i].bits
    IN  {{}, LowMask(n)} \cup (IF i \in {1, 3} THEN {{j \in LowMask(n) : j % 2 = 0}} ELSE {})

\* macro_struct = Generated::new() in bytes, hand_struct = Handwritten::new()
\* in shadow
InitBench ==
    /\ target \in Targets
    /\ fields = Layout(Generated)
    /\ bytes = new(Generated)
    /\ shadow = Handwritten_new
    /\ call = NoCall

\* macro_struct.set_x(n); hand_struct.set_x(n)
SetBoth ==
    \E i \in 1 .. Len(fields) : \E v \in BenchValues(i) :
        /\ bytes' = set(target, bytes, fields[i], v).bytes
        /\ shadow' = HandwrittenSet(shadow, i, v).data
        /\ call' = [op |-> "set", field |-> i, arg |-> v,
                    ret |-> IF HandwrittenSet(shadow, i, v).ok
                            THEN set(target, bytes, fields[i], v).ret ELSE Panic,
                    before |-> <<>>]
        /\ UNCHANGED <<target, fields>>

\* macro_struct.x() beside hand_struct.x(), the latter kept in call.arg
GetBoth ==
    \E i \in 1 .. Len(fields) :
        /\ call' = [op |-> "get", field |-> i, arg |-> HandwrittenGet(shadow, i),
                    ret |-> get(target, bytes, fields[i]), before |-> <<>>]
        /\ UNCHANGED <<target, bytes, fields, shadow>>

NextBench == SetBoth \/ GetBoth

SpecBench == InitBench /\ [][NextBench]_vars

\* C19: after the same setter calls with in-range values on Generated and on
\* Handwritten, every getter returns the same value on both.
C19_HandwrittenEquivalent ==
    call.op = "get" => call.ret = Ok(call.arg)

-----------------------------------------------------------------------------
(* #[repr(uN)] structs: From<uN> for the struct and From<struct> for uN.   *)

\* impl From<uN> for Struct: Self { bytes: uN::to_le_bytes(prim) }
repr_from_prim(prim, len) == ToLeBytes(prim, len)

\* impl From<Struct> for uN: uN::from_le_bytes(bitfield.bytes)
repr_into_prim(array) == FromLeBytes(array)

\* the #[repr] structs of the docs and tests: SignedU16 { sign: bool,
\* abs_value: B15 }, SignedInt { sign: bool, value: B31 } and TtResp, whose
\* u8 fields convert like B8
ReprLayouts ==
    {<<BoolSpec, BSpec(15)>>,
     <<BoolSpec, BSpec(31)>>,
     <<BSpec(8), BSpec(8), BoolSpec, BoolSpec, BoolSpec, BoolSpec,
       BoolSpec, BoolSpec, BoolSpec, BoolSpec, BSpec(8)>>}

\* values of uN, N = 8 * len: zero, all ones, mixed, the tests' values and
\* every single bit
ReprValues(len) ==
    Values(8 * len) \cup {ToBits(113), ToBits(295)}
        \cup {FromLeBytes(<<ToBits(255), ToBits(238), ToBits(255), ToBits(221)>>)
                \cap LowMask(8 * len)}
        \cup {{i} : i \in 0 .. (8 * len - 1)}

InitRepr ==
    /\ target \in Targets
    /\ \E specs \in ReprLayouts :
         /\ fields = Layout(specs)
         /\ bytes = new(specs)
    /\ shadow = <<>>
    /\ call = NoCall

\* Struct::from(x), x kept in shadow
ReprFrom ==
    \E x \in ReprValues(Len(bytes)) :
        /\ bytes' = repr_from_prim(x, Len(bytes))
        /\ shadow' = <<x>>
        /\ call' = [op |-> "from", field |-> 0, arg |-> x, ret |-> Ok({}),
                    before |-> <<>>]
        /\ UNCHANGED <<target, fields>>

\* uN::from(struct)
ReprInto ==
    /\ call' = [op |-> "into", field |-> 0, arg |-> {},
                ret |-> Ok(repr_into_prim(bytes)), before |-> <<>>]
    /\ UNCHANGED <<target, bytes, fields, shadow>>

\* a getter of the struct
ReprGet ==
    \E i \in 1 .. Len(fields) :
        /\ call' = [op |-> "get", field |-> i, arg |-> {},
                    ret |-> get(target, bytes, fields[i]), before |-> <<>>]
        /\ UNCHANGED <<target, bytes, fields, shadow>>

NextRepr == ReprFrom \/ ReprInto \/ ReprGet

SpecRepr == InitRepr /\ [][NextRepr]_vars

\* C20: for a #[repr(uN)] struct, Struct::from(x) holds the little-endian
\* bytes of x, each getter returns bits [offset, offset + width) of x, and
\* uN::from(Struct::from(x)) = x.
C20_ReprRoundTrip ==
    shadow # <<>> =>
        /\ bytes = LeBytes(shadow[1], Len(bytes))
        /\ call.op = "into" => call.ret = Ok(shadow[1])
        /\ call.op = "get" =>
             /\ call.ret.ok
             /\ ValueOf(fields[call.field].spec, call.ret.val)
                  = {j - fields[call.field].offset :
                       j \in shadow[1] \cap
                             (fields[call.field].offset ..
                              fields[call.field].offset + fields[call.field].spec.bits - 1)}

-----------------------------------------------------------------------------
(* Enums with data (adt_specifier.rs).  The specifier is                   *)
(*   [kind |-> "adt", bits, discs, tag, variants]                          *)
(* where tag is the enum specifier of the tag and variants[i] is           *)
(*   [tag |-> the index in tag.discs of the variant's tag,                 *)
(*    fields |-> the specifiers of the variant's data].                    *)
(* Its InOut is [variant |-> i, payload |-> the data's InOut values].      *)

RECURSIVE SumBits(_)
SumBits(tys) == IF tys = <<>> THEN 0 ELSE Head(tys).bits + SumBits(Tail(tys))

\* tag_bits + the BITS of the variant's fields
VariantBits(tag, variant) == tag.bits + SumBits(variant.fields)

\* ::modular_bitfield::private::const_max, taken as the larger of the two
const_max(lhs, rhs) == IF lhs > rhs THEN lhs ELSE rhs

\* .filter_map(..).map(..): tag_bits + BITS.. of each variant that has fields
AdtArms(tag, variants) ==
    LET data == SelectSeq(variants, LAMBDA v : v.fields # <<>>)
    IN  [k \in 1 .. Len(data) |-> VariantBits(tag, data[k])]

\* .reduce(|arm1, arm2| const_max(arm1, arm2))
RECURSIVE ReduceArms(_, _)
ReduceArms(arm1, arms) ==
    IF arms = <<>> THEN arm1
    ELSE ReduceArms(const_max(arm1, Head(arms)), Tail(arms))

\* AdtBits that keeps the last arm instead of the largest
AdtBits_LastArm(tag, variants) ==
    AdtArms(tag, variants)[Len(AdtArms(tag, variants))]

\* const BITS of an enum with data
AdtBits(tag, variants) ==
    ReduceArms(Head(AdtArms(tag, variants)), Tail(AdtArms(tag, variants)))

AdtSpec(tag, variants) ==
    [kind |-> "adt", bits |-> AdtBits(tag, variants), discs |-> <<>>,
     tag |-> tag, variants |-> variants]

RECURSIVE adt_into_bytes(_, _, _)
RECURSIVE adt_from_bytes(_, _, _)

\* <ty as Specifier>::into_bytes for every kind of specifier
SpecifierIntoBytes(t, ty, value) ==
    CASE ty.kind = "adt" -> adt_into_bytes(t, ty, value)
      [] ty.kind \in {"struct", "unfilled"} -> struct_into_bytes(ty, value)
      [] OTHER -> into_bytes(ty, value)

\* <ty as Specifier>::from_bytes for every kind of specifier
SpecifierFromBytes(t, ty, raw) ==
    CASE ty.kind = "adt" -> adt_from_bytes(t, ty, raw)
      [] ty.kind \in {"struct", "unfilled"} -> struct_from_bytes(t, ty, raw)
      [] OTHER -> from_bytes(ty, raw)

\* what write_specifier leaves of __bf_bytes; st = [ret, bytes]
Wrote(wr) == [ret |-> IF wr.ok THEN Ok({}) ELSE Panic, bytes |-> wr.bytes]

\* check_bounds_and_write once __bf_raw_val = into_bytes(value) is at hand
WriteChecked(t, st, ty, offset, bf_raw_val) ==
    IF ~bf_raw_val.ok THEN [ret |-> bf_raw_val, bytes |-> st.bytes]
    ELSE IF ~(StorageBits(ty.bits) = ty.bits
              \/ ~Gt(bf_raw_val.val,
                     Shr(LowMask(StorageBits(ty.bits)), StorageBits(ty.bits) - ty.bits)))
    THEN [ret |-> OutOfBounds, bytes |-> st.bytes]
    ELSE Wrote(write_specifier(t, st.bytes, offset, ty.bits, bf_raw_val.val))

\* check_bounds_and_write(span, ty, value, offset), skipped after an early return
check_bounds_and_write(t, st, ty, value, offset) ==
    IF ~st.ret.ok THEN st
    ELSE WriteChecked(t, st, ty, offset, SpecifierIntoBytes(t, ty, value))

\* data_to_bytes: the fields from the i-th on, offset growing by each BITS
RECURSIVE AdtWriteData(_, _, _, _, _, _)
AdtWriteData(t, st, tys, values, i, offset) ==
    IF i > Len(tys) THEN st
    ELSE AdtWriteData(t, check_bounds_and_write(t, st, tys[i], values[i], offset),
                      tys, values, i + 1, offset + tys[i].bits)

\* Ok(array_into_bytes(__bf_bytes)) unless an arm returned early
AdtEncoded(st) == IF st.ret.ok THEN Ok(array_into_bytes(st.bytes)) ELSE st.ret

\* AdtZeroed whose array starts as 0xFF bytes
AdtZeroed_Ones(spec) == [k \in 1 .. BytesFor(spec.bits) |-> 0 .. 7]

\* let mut __bf_bytes = [0u8; next_divisible_by_8 / 8]
AdtZeroed(spec) == [k \in 1 .. BytesFor(spec.bits) |-> {}]

\* into_bytes of an enum with data: the arm of input's variant
adt_into_bytes(t, spec, input) ==
    AdtEncoded(
      AdtWriteData(t,
        check_bounds_and_write(t,
          [ret |-> Ok({}), bytes |-> AdtZeroed(spec)],
          spec.tag, spec.variants[input.variant].tag, 0),
        spec.variants[input.variant].fields, input.payload, 1, spec.tag.bits))

\* .map_err(|_| InvalidBitPattern::new(bytes)): the error of a field or of the
\* tag is replaced by one that carries the raw value of the whole enum
MapErr(r, raw) == IF r.ok \/ r.err = "panic" THEN r ELSE InvalidBitPattern(raw)

\* from_bytes of the tag or of a field, given what read_specifier returned
AdtField(t, ty, raw, bf_read) ==
    IF ~bf_read.ok THEN Panic
    ELSE MapErr(SpecifierFromBytes(t, ty, bf_read.val), raw)

\* data_from_bytes: the fields from the i-th on; `?` returns at the first error
RECURSIVE AdtReadData(_, _, _, _, _, _, _)
RECURSIVE AdtReadRest(_, _, _, _, _, _, _, _)
AdtReadData(t, array, raw, tys, i, offset, temps) ==
    IF i > Len(tys) THEN Ok(temps)
    ELSE AdtReadRest(t, array, raw, tys, i, offset, temps,
                     AdtField(t, tys[i], raw,
                              read_specifier(t, array, offset, tys[i].bits)))

AdtReadRest(t, array, raw, tys, i, offset, temps, temp) ==
    IF ~temp.ok THEN temp
    ELSE AdtReadData(t, array, raw, tys, i + 1, offset + tys[i].bits,
                     Append(temps, temp.val))

\* Ok(Enum::Variant(temps))
AdtConstruct(i, data) ==
    IF data.ok THEN Ok([variant |-> i, payload |-> data.val]) ELSE data

\* AdtMatch whose fallback arm reports the tag instead of the raw value
AdtMatch_TagInError(t, spec, raw, array, tag) ==
    LET arms == {i \in 1 .. Len(spec.variants) : spec.variants[i].tag = tag.val}
        first == CHOOSE i \in arms : \A j \in arms : i <= j
    IN  IF ~tag.ok
        THEN (IF tag.err = "panic" THEN tag
              ELSE InvalidBitPattern(raw \cap LowMask(spec.tag.bits)))
        ELSE IF arms = {}
        THEN InvalidBitPattern(raw \cap LowMask(spec.tag.bits))
        ELSE AdtConstruct(first,
               AdtReadData(t, array, raw, spec.variants[first].fields, 1,
                           spec.tag.bits, <<>>))

\* match tag { #tag::#ident => .., _ => Err(InvalidBitPattern::new(bytes)) }
AdtMatch(t, spec, raw, array, tag) ==
    LET arms == {i \in 1 .. Len(spec.variants) : spec.variants[i].tag = tag.val}
        first == CHOOSE i \in arms : \A j \in arms : i <= j
    IN  IF ~tag.ok THEN tag
        ELSE IF arms = {} THEN InvalidBitPattern(raw)
        ELSE AdtConstruct(first,
               AdtReadData(t, array, raw, spec.variants[first].fields, 1,
                           spec.tag.bits, <<>>))

\* the tag is read at offset 0 of the array
AdtDecode(t, spec, raw, conv) ==
    IF ~conv.ok THEN Panic
    ELSE AdtMatch(t, spec, raw, conv.array,
                  AdtField(t, spec.tag, raw,
                           read_specifier(t, conv.array, 0, spec.tag.bits)))

\* from_bytes of an enum with data
adt_from_bytes(t, spec, raw) ==
    AdtDecode(t, spec, raw, bytes_into_array(t, 8 * BytesFor(spec.bits), raw))

-----------------------------------------------------------------------------
(* The generated accessors for a field of any specifier, an enum with data *)
(* or a struct included.                                                   *)

\* <ty as Specifier>::from_bytes(__bf_read)
FieldFromBytes(t, ty, bf_read) ==
    IF bf_read.ok THEN SpecifierFromBytes(t, ty, bf_read.val) ELSE Panic

\* <field>_or_err(&self)
field_get_checked(t, buf, f) ==
    FieldFromBytes(t, f.spec, read_specifier(t, buf, f.offset, f.spec.bits))

\* set_<field>_checked(&mut self, new_val); returns [ret, bytes]
field_set_checked(t, buf, f, new_val) ==
    WriteChecked(t, [ret |-> Ok({}), bytes |-> buf], f.spec, f.offset,
                 SpecifierIntoBytes(t, f.spec, new_val))

\* Result::expect on what a checked setter returned
Expect(r) == IF r.ret.ok THEN r ELSE [ret |-> Panic, bytes |-> r.bytes]

\* set_<field>(&mut self, new_val)
field_set(t, buf, f, new_val) == Expect(field_set_checked(t, buf, f, new_val))

-----------------------------------------------------------------------------
(* tests/derive-bitfield-specifier/adts.rs                                 *)

\* enum Two { Zero, One, Two, Three }
Two == EnumSpec(2, <<0, 1, 2, 3>>)

\* #[bits = 4] enum Four { Zero = 0, Fifteen = 15 }
Four == EnumSpec(4, <<0, 15>>)

\* #[bits = 2] enum SimpleAdt { First(Two, Four), Second(Two), Third, Fourth }
SimpleAdt ==
    AdtSpec(EnumSpec(2, <<0, 1, 2, 3>>),
            <<[tag |-> 1, fields |-> <<Two, Four>>],
              [tag |-> 2, fields |-> <<Two>>],
              [tag |-> 3, fields |-> <<>>],
              [tag |-> 4, fields |-> <<>>]>>)

\* enum NestedAdt { This(SimpleAdt, Two), That { foo: Two, bar: Four } }
NestedAdt ==
    AdtSpec(EnumSpec(1, <<0, 1>>),
            <<[tag |-> 1, fields |-> <<SimpleAdt, Two>>],
              [tag |-> 2, fields |-> <<Two, Four>>]>>)

\* #[bitfield(filled = false)] struct RegularBf { first: B2, second: B5 }
RegularBf == StructSpec(7, FALSE)

\* enum AdtWithBf { Has(RegularBf), Missing }
AdtWithBf ==
    AdtSpec(EnumSpec(1, <<0, 1>>),
            <<[tag |-> 1, fields |-> <<RegularBf>>],
              [tag |-> 2, fields |-> <<>>]>>)

\* #[bits = 2] enum Tags { Unused = 0, Has = 0b01, Missing = 0b10 }
Tags == EnumSpec(2, <<0, 1, 2>>)

\* #[tag(Tags)] enum Tagged { Has(RegularBf), Missing }
Tagged ==
    AdtSpec(Tags,
            <<[tag |-> 2, fields |-> <<RegularBf>>],
              [tag |-> 3, fields |-> <<>>]>>)

Adts == {SimpleAdt, NestedAdt, AdtWithBf, Tagged}

-----------------------------------------------------------------------------
(* Structs of one field `adt` (SimpleAdtBitfield, NestedAdtBitfield,       *)
(* AdtWithBfBitfield, TaggedBitfield), and the conversions of their field's *)
(* specifier, each applied once to a drawn input.                          *)

\* the values of a specifier's InOut; of a struct, byte arrays within BITS
RECURSIVE InOutSet(_)
RECURSIVE Payloads(_)
InOutSet(ty) ==
    CASE ty.kind = "adt" ->
           UNION {{[variant |-> i, payload |-> p] : p \in Payloads(ty.variants[i].fields)} :
                    i \in 1 .. Len(ty.variants)}
      [] ty.kind = "enum" -> 1 .. Len(ty.discs)
      [] ty.kind \in {"struct", "unfilled"} ->
           {ToLeBytes(v, BytesFor(ty.bits)) : v \in Values(ty.bits)}
      [] OTHER -> Values(ty.bits)

Payloads(tys) ==
    IF tys = <<>> THEN {<<>>}
    ELSE {<<v>> \o rest : v \in InOutSet(Head(tys)), rest \in Payloads(Tail(tys))}

\* of each variant the payloads whose fields hold their first or their last
\* value (of a struct: no bit or every bit), for the setter of a struct
RECURSIVE InOutEnds(_)
RECURSIVE PayloadEnds(_)
InOutEnds(ty) ==
    CASE ty.kind = "adt" ->
           UNION {{[variant |-> i, payload |-> p] : p \in PayloadEnds(ty.variants[i].fields)} :
                    i \in 1 .. Len(ty.variants)}
      [] ty.kind = "enum" -> {1, Len(ty.discs)}
      [] ty.kind \in {"struct", "unfilled"} ->
           {ToLeBytes(v, BytesFor(ty.bits)) : v \in {{}, LowMask(ty.bits)}}
      [] OTHER -> {{}, LowMask(ty.bits)}

PayloadEnds(tys) ==
    IF tys = <<>> THEN {<<>>}
    ELSE {<<v>> \o rest : v \in InOutEnds(Head(tys)), rest \in PayloadEnds(Tail(tys))}

\* every value of the storage type that fits the bytes of the slot, and the
\* all-ones value of the storage type
AdtRaws(ty) ==
    {ToBits(k) : k \in 0 .. (Pow2(ty.bits) - 1)} \cup {LowMask(StorageBits(ty.bits))}

\* byte arrays handed to Struct::from_bytes: every byte for a struct of one
\* byte; for a longer one the patterns of Values, the values below 16 and
\* the first value out of range
AdtArrays(ty) ==
    IF BytesFor(ty.bits) = 1 THEN {<<b>> : b \in AllU8}
    ELSE {ToLeBytes(v, BytesFor(ty.bits)) :
            v \in Values(ty.bits) \cup {ToBits(k) : k \in 0 .. 15} \cup {{ty.bits}}}

\* the struct around a field of specifier ty: filled unless BITS leaves a rest
AdtBitfield(ty) == StructSpec(ty.bits, ty.bits % 8 = 0)

InitAdt ==
    /\ target \in Targets
    /\ \E ty \in Adts :
         /\ fields = Layout(<<ty>>)
         /\ bytes = new(<<ty>>)
    /\ shadow = <<>>
    /\ call = NoCall

\* <Adt as Specifier>::into_bytes(input)
AdtIntoBytes ==
    /\ call.op = "new"
    /\ \E i \in 1 .. Len(fields[1].spec.variants) :
         \E p \in Payloads(fields[1].spec.variants[i].fields) :
            call' = [op |-> "to_storage", field |-> 1,
                     arg |-> [variant |-> i, payload |-> p],
                     ret |-> adt_into_bytes(target, fields[1].spec,
                                            [variant |-> i, payload |-> p]),
                     before |-> <<>>]
    /\ UNCHANGED <<target, bytes, fields, shadow>>

\* <Adt as Specifier>::from_bytes of what into_bytes returned for call.arg
AdtDecodeEncoded ==
    /\ call.op = "to_storage"
    /\ call.ret.ok
    /\ call' = [op |-> "decode", field |-> 1, arg |-> call.arg,
                ret |-> adt_from_bytes(target, fields[1].spec, call.ret.val),
                before |-> <<>>]
    /\ UNCHANGED <<target, bytes, fields, shadow>>

\* <Adt as Specifier>::from_bytes(raw)
AdtFromBytes ==
    /\ call.op = "new"
    /\ \E raw \in AdtRaws(fields[1].spec) :
         call' = [op |-> "from_storage", field |-> 1, arg |-> raw,
                  ret |-> adt_from_bytes(target, fields[1].spec, raw),
                  before |-> <<>>]
    /\ UNCHANGED <<target, bytes, fields, shadow>>

\* Struct::from_bytes(array), the other constructor
AdtStructFromBytes ==
    /\ call.op = "new"
    /\ \E array \in AdtArrays(fields[1].spec) :
         /\ call' = [op |-> "from_bytes", field |-> 0, arg |-> array,
                     ret |-> record_from_bytes(target, AdtBitfield(fields[1].spec), array),
                     before |-> <<>>]
         /\ bytes' = IF call'.ret.ok THEN array ELSE bytes
    /\ UNCHANGED <<target, fields, shadow>>

\* a struct is at hand: no constructor failed and no call panicked
AdtAlive ==
    /\ call.op \in {"new", "from_bytes", "set", "get"}
    /\ call.op = "from_bytes" => call.ret.ok
    /\ call.ret.err # "panic"

\* set_adt(new_val), new_val kept in shadow
AdtSet ==
    /\ AdtAlive
    /\ \E i \in 1 .. Len(fields[1].spec.variants) :
         \E p \in PayloadEnds(fields[1].spec.variants[i].fields) :
            LET wr == field_set(target, bytes, fields[1], [variant |-> i, payload |-> p])
            IN  /\ bytes' = wr.bytes
                /\ shadow' = <<[variant |-> i, payload |-> p]>>
                /\ call' = [op |-> "set", field |-> 1,
                            arg |-> [variant |-> i, payload |-> p],
                            ret |-> wr.ret, before |-> bytes]
    /\ UNCHANGED <<target, fields>>

\* adt_or_err()
AdtGet ==
    /\ AdtAlive
    /\ call.op # "get"
    /\ call' = [op |-> "get", field |-> 1, arg |-> {},
                ret |-> field_get_checked(target, bytes, fields[1]),
                before |-> <<>>]
    /\ UNCHANGED <<target, bytes, fields, shadow>>

NextAdt ==
    \/ AdtIntoBytes
    \/ AdtDecodeEncoded
    \/ AdtFromBytes
    \/ AdtStructFromBytes
    \/ AdtSet
    \/ AdtGet

SpecAdt == InitAdt /\ [][NextAdt]_vars

-----------------------------------------------------------------------------
(* Properties of enums with data.                                          *)

\* the same variant with the same payload
SameAdt(a, b) == a.variant = b.variant /\ a.payload = b.payload

\* the bits [offset, offset + bits) of a raw value
SlotBits(raw, offset, bits) == {j - offset : j \in raw \cap (offset .. (offset + bits - 1))}

\* the raw value of the slot of the struct's field
AdtSlot == FieldBits(bytes, fields[1].offset, fields[1].spec.bits)

\* the variants whose tag has the discriminant that raw's tag bits hold
TagArms(ty, raw) ==
    {i \in 1 .. Len(ty.variants) :
        ToBits(ty.tag.discs[ty.variants[i].tag]) = SlotBits(raw, 0, ty.tag.bits)}

\* raw is a bit pattern of a value of ty
RECURSIVE ValidRaw(_, _)
RECURSIVE ValidData(_, _, _)
ValidRaw(ty, raw) ==
    CASE ty.kind = "adt" ->
           \E i \in TagArms(ty, raw) : ValidData(ty.variants[i].fields, raw, ty.tag.bits)
      [] ty.kind = "enum" -> \E k \in 1 .. Len(ty.discs) : ToBits(ty.discs[k]) = raw
      [] OTHER -> TRUE

ValidData(tys, raw, offset) ==
    \/ tys = <<>>
    \/ /\ ValidRaw(Head(tys), SlotBits(raw, offset, Head(tys).bits))
       /\ ValidData(Tail(tys), raw, offset + Head(tys).bits)

\* C14: a variant with valid payload values is encoded (into_bytes, set_adt)
\* without an error, and decoding what was encoded (from_bytes, the getter)
\* returns the same variant with the same payload.
C14_AdtRoundTrip ==
    /\ call.op = "to_storage" => call.ret.ok
    /\ call.op = "decode" => call.ret.ok /\ SameAdt(call.ret.val, call.arg)
    /\ call.op = "set" => call.ret.ok
    /\ (call.op = "get" /\ shadow # <<>>) =>
          call.ret.ok /\ SameAdt(call.ret.val, shadow[1])

\* the bits of the slot above the last payload bit of variant i
AbovePayload(ty, i) == VariantBits(ty.tag, ty.variants[i]) .. (StorageBits(ty.bits) - 1)

\* C15: after a variant narrower than the enum is encoded, every bit of the
\* slot above its last payload bit is zero: in what into_bytes returns, and
\* in the struct's slot after set_adt whatever the slot held before.
C15_NarrowVariantZeroPadded ==
    /\ (call.op = "to_storage" /\ call.ret.ok) =>
          call.ret.val \cap AbovePayload(fields[1].spec, call.arg.variant) = {}
    /\ (call.op = "set" /\ call.ret.ok) =>
          AdtSlot \cap AbovePayload(fields[1].spec, call.arg.variant) = {}

\* set_adt stored a narrower variant over a slot whose bits above that
\* variant's payload were not all zero
C15_Witness ==
    /\ call.op = "set"
    /\ call.ret.ok
    /\ VariantBits(fields[1].spec.tag, fields[1].spec.variants[call.arg.variant])
          < fields[1].spec.bits
    /\ FieldBits(call.before, fields[1].offset, fields[1].spec.bits)
          \cap AbovePayload(fields[1].spec, call.arg.variant) # {}
    /\ AdtSlot \cap AbovePayload(fields[1].spec, call.arg.variant) = {}

\* C16 as stated: from_bytes of a slot whose tag bits match no variant
\* returns an InvalidBitPattern whose raw value is the value of the tag bits.
C16_UnknownTagCarriesTag ==
    (call.op = "from_storage" /\ TagArms(fields[1].spec, call.arg) = {}) =>
        call.ret = InvalidBitPattern(SlotBits(call.arg, 0, fields[1].spec.tag.bits))

\* C16 amended: from_bytes of a slot whose tag bits match no variant returns
\* an InvalidBitPattern whose raw value is the raw value of the whole slot,
\* as it was handed to from_bytes.
C16_UnknownTagCarriesSlot ==
    (call.op = "from_storage" /\ TagArms(fields[1].spec, call.arg) = {}) =>
        call.ret = InvalidBitPattern(call.arg)

\* a slot with payload bits set and a tag no variant has was decoded
C16_Witness ==
    /\ call.op = "from_storage"
    /\ TagArms(fields[1].spec, call.arg) = {}
    /\ call.arg # SlotBits(call.arg, 0, fields[1].spec.tag.bits)
    /\ call.ret = InvalidBitPattern(call.arg)

\* C17: a slot whose tag bits match a variant and one of whose payload
\* fields holds no bit pattern of its type decodes to an InvalidBitPattern
\* whose raw value is the raw value of the whole slot.
C17_InvalidPayloadCarriesSlot ==
    /\ (call.op = "from_storage"
           /\ TagArms(fields[1].spec, call.arg) # {}
           /\ ~ValidRaw(fields[1].spec, call.arg)) =>
          call.ret = InvalidBitPattern(call.arg)
    /\ (call.op = "get"
           /\ TagArms(fields[1].spec, AdtSlot) # {}
           /\ ~ValidRaw(fields[1].spec, AdtSlot)) =>
          call.ret = InvalidBitPattern(AdtSlot)

\* the largest sum of payload widths over all variants, 0 for one without
MaxPayloadBits(ty) ==
    LET sums == {SumBits(ty.variants[i].fields) : i \in 1 .. Len(ty.variants)}
    IN  CHOOSE m \in sums : \A n \in sums : n <= m

\* ty, and every enum with data among its payload fields, has the width of
\* its tag plus its largest payload
RECURSIVE WidthIsTagPlusMax(_)
WidthIsTagPlusMax(ty) ==
    ty.kind = "adt" =>
      /\ ty.bits = ty.tag.bits + MaxPayloadBits(ty)
      /\ \A i \in 1 .. Len(ty.variants) :
           \A k \in 1 .. Len(ty.variants[i].fields) :
              WidthIsTagPlusMax(ty.variants[i].fields[k])

\* C23: BITS of an enum with data is the width of its tag plus the largest
\* sum of payload widths over its variants; the struct around it has the
\* bytes that hold that many bits.
C23_AdtBits ==
    /\ WidthIsTagPlusMax(fields[1].spec)
    /\ Len(bytes) = (fields[1].spec.bits + 7) \div 8

\* NestedAdt (1 + 8 + 2 bits in a struct of 2 bytes) encoded a value whose
\* bit 10 is set
C23_Witness ==
    /\ fields[1].spec.bits = 11
    /\ Len(bytes) = 2
    /\ call.op = "to_storage"
    /\ call.ret.ok
    /\ 10 \in call.ret.val

-----------------------------------------------------------------------------
(* The expansion of the accessors of a struct (expand_getters_and_setters). *)
(* shadow holds the declaration, a field being [spec, skip] with skip the  *)
(* field's FieldConfig::skip ("None" or a SkipWhich); fields grows by one  *)
(* [spec, offset, getters, setters] per expanded field; call.arg holds the *)
(* `offset` list of BITS terms while the expansion runs.                   *)

\* SkipWhich::skip_getters, false without a #[skip]
skip_getters(which) == which \in {"All", "Getters"}

\* SkipWhich::skip_setters, false without a #[skip]
skip_setters(which) == which \in {"All", "Setters"}

\* the value of the expression `a + b + ..` that #offset expands to
RECURSIVE OffsetValue(_)
OffsetValue(offset) ==
    IF offset = <<>> THEN 0 ELSE Head(offset) + OffsetValue(Tail(offset))

\* if offset.is_empty() { &mut zero } else { offset }
OffsetOrZero(offset) == IF offset = <<>> THEN <<0>> ELSE offset

\* OffsetPush that leaves out the fields whose accessors are all skipped
OffsetPush_NotSkipped(offset, info) ==
    IF info.skip = "All" THEN offset ELSE Append(offset, info.spec.bits)

\* offset.push(<#ty as Specifier>::BITS)
OffsetPush(offset, info) == Append(offset, info.spec.bits)

\* what expand_getters_and_setters_for_field generates for the field info
ExpandedField(offset, info) ==
    [spec |-> info.spec, offset |-> OffsetValue(OffsetOrZero(offset)),
     getters |-> ~skip_getters(info.skip), setters |-> ~skip_setters(info.skip)]

\* regression_v0_11's Flags and skip.rs's Sparse with each kind of #[skip]
Declarations ==
    {<<[spec |-> BoolSpec, skip |-> "None"], [spec |-> BoolSpec, skip |-> "All"],
       [spec |-> BoolSpec, skip |-> "None"], [spec |-> BSpec(5), skip |-> "All"]>>}
    \cup {<<[spec |-> BSpec(10), skip |-> which], [spec |-> BoolSpec, skip |-> "None"],
            [spec |-> BSpec(10), skip |-> which], [spec |-> BoolSpec, skip |-> "None"],
            [spec |-> BSpec(10), skip |-> which]>> :
            which \in {"All", "Getters", "Setters"}}

\* the specifiers of a declaration
DeclSpecs(decl) == [i \in 1 .. Len(decl) |-> decl[i].spec]

InitExpand ==
    /\ target \in Targets
    /\ shadow \in Declarations
    /\ fields = <<>>
    /\ bytes = new(DeclSpecs(shadow))
    /\ call = [NoCall EXCEPT !.arg = <<>>]

\* expand_getters_and_setters_for_field for the next field of the struct
ExpandField ==
    /\ Len(fields) < Len(shadow)
    /\ fields' = Append(fields, ExpandedField(call.arg, shadow[Len(fields) + 1]))
    /\ call' = [op |-> "expand", field |-> Len(fields) + 1,
                arg |-> OffsetPush(call.arg, shadow[Len(fields) + 1]),
                ret |-> Ok({}), before |-> <<>>]
    /\ UNCHANGED <<target, bytes, shadow>>

\* a generated setter of the expanded struct
ExpandedSet ==
    /\ Len(fields) = Len(shadow)
    /\ call.ret.ok
    /\ \E i \in 1 .. Len(fields) : \E v \in SetterInputs(fields[i].spec) :
         LET r == set(target, bytes, fields[i], v)
         IN  /\ fields[i].setters
             /\ bytes' = r.bytes
             /\ call' = [op |-> "set", field |-> i, arg |-> v, ret |-> r.ret,
                         before |-> bytes]
    /\ UNCHANGED <<target, fields, shadow>>

\* a generated getter of the expanded struct
ExpandedGet ==
    /\ Len(fields) = Len(shadow)
    /\ call.ret.ok
    /\ call.op # "get"
    /\ \E i \in 1 .. Len(fields) :
         /\ fields[i].getters
         /\ call' = [op |-> "get", field |-> i, arg |-> {},
                     ret |-> get(target, bytes, fields[i]), before |-> <<>>]
    /\ UNCHANGED <<target, bytes, fields, shadow>>

NextExpand == ExpandField \/ ExpandedSet \/ ExpandedGet

SpecExpand == InitExpand /\ [][NextExpand]_vars

\* C21: the offset of every expanded field is the sum of the widths of the
\* fields declared before it, skipped ones included; so each field starts
\* where the one before it ends and no two fields share a bit.
C21_OffsetsContiguous ==
    /\ \A i \in 1 .. Len(fields) :
         fields[i].offset = SumBits(SubSeq(DeclSpecs(shadow), 1, i - 1))
    /\ \A i \in 2 .. Len(fields) :
         fields[i].offset = fields[i - 1].offset + fields[i - 1].spec.bits
    /\ \A i, j \in 1 .. Len(fields) :
         i # j =>
           (fields[i].offset .. (fields[i].offset + fields[i].spec.bits - 1))
             \cap (fields[j].offset .. (fields[j].offset + fields[j].spec.bits - 1)) = {}

\* Flags is expanded, b follows a skipped field, and set_a(true) and
\* set_b(true) have left 0b0000_0101
C21_Witness ==
    /\ Len(fields) = 4
    /\ shadow[2].skip = "All"
    /\ fields[3].offset = 2
    /\ call.op = "set"
    /\ call.field = 3
    /\ bytes = <<{0, 2}>>

-----------------------------------------------------------------------------
(* #[derive(BitfieldSpecifier)] on an enum without data (generate_enum).   *)
(* shadow holds the declaration [bits, discs]: bits the #[bits = N]        *)
(* attribute as an Option, discs the variants' discriminants; fields holds *)
(* the derived specifier once the derive and the checks it emits passed.   *)

None == [some |-> FALSE, value |-> 0]
Some(v) == [some |-> TRUE, value |-> v]

\* the derive, or a check in what it generated, failed to compile
CompileError == [ok |-> FALSE, val |-> {}, err |-> "compile_error"]

\* usize::is_power_of_two
is_power_of_two(n) == \E k \in 0 .. 29 : n = Pow2(k)

\* usize::next_power_of_two: the smallest power of two >= n
next_power_of_two(n) ==
    Pow2(CHOOSE k \in 0 .. 29 : n <= Pow2(k) /\ \A j \in 0 .. (k - 1) : Pow2(j) < n)

\* usize::trailing_zeros of a nonzero value
trailing_zeros(n) == CHOOSE k \in 0 .. 29 : n % Pow2(k + 1) = Pow2(k)

\* `bits` of generate_enum: [ok, bits].  checked_next_power_of_two is None
\* only beyond half the range of usize, which no variant count reaches.
EnumBits(decl) ==
    IF decl.bits.some THEN [ok |-> TRUE, bits |-> decl.bits.value]
    ELSE IF ~is_power_of_two(Len(decl.discs)) THEN [ok |-> FALSE, bits |-> 0]
    ELSE [ok |-> TRUE, bits |-> trailing_zeros(next_power_of_two(Len(decl.discs)))]

\* CheckDiscriminantInRange that every discriminant passes
CheckDiscriminantInRange_Any(bits, discs) == TRUE

\* check_discriminants: (Self::Variant as usize) < (0x01_usize << bits)
CheckDiscriminantInRange(bits, discs) ==
    \A i \in 1 .. Len(discs) : discs[i] < Pow2(bits)

\* <[(); bits] as SpecifierBytes> exists for the widths define_specifiers covers
HasSpecifierBytes(bits) == bits \in 1 .. 128

\* generate_enum and the compilation of what it generated
generate_enum(decl) ==
    IF ~EnumBits(decl).ok THEN CompileError
    ELSE IF ~CheckDiscriminantInRange(EnumBits(decl).bits, decl.discs) THEN CompileError
    ELSE IF ~HasSpecifierBytes(EnumBits(decl).bits) THEN CompileError
    ELSE Ok(EnumSpec(EnumBits(decl).bits, decl.discs))

\* the largest number of variants and the largest #[bits = N] tried
MaxVariants == 9
MaxDeclaredBits == 4

\* enums with the discriminants 0, 1, .. and each #[bits] or none; Four and
\* SmallPrime with and without their #[bits = 4]
EnumDecls ==
    {[bits |-> b, discs |-> [i \in 1 .. n |-> i - 1]] :
        b \in {None} \cup {Some(v) : v \in 0 .. MaxDeclaredBits}, n \in 1 .. MaxVariants}
    \cup {[bits |-> b, discs |-> ds] :
            b \in {None, Some(4)}, ds \in {<<0, 15>>, <<2, 3, 5, 7, 11, 13>>}}

InitDerive ==
    /\ target \in Targets
    /\ \E decl \in EnumDecls : shadow = <<decl>>
    /\ fields = <<>>
    /\ bytes = <<>>
    /\ call = NoCall

\* #[derive(BitfieldSpecifier)] enum ..
DeriveEnum ==
    /\ call.op = "new"
    /\ call' = [op |-> "derive", field |-> 0, arg |-> {},
                ret |-> IF generate_enum(shadow[1]).ok THEN Ok({}) ELSE CompileError,
                before |-> <<>>]
    /\ fields' = IF generate_enum(shadow[1]).ok
                 THEN <<[spec |-> generate_enum(shadow[1]).val, offset |-> 0]>>
                 ELSE <<>>
    /\ UNCHANGED <<target, bytes, shadow>>

\* into_bytes of the derived enum
DerivedIntoBytes ==
    /\ call.op = "derive"
    /\ fields # <<>>
    /\ \E v \in 1 .. Len(fields[1].spec.discs) :
         call' = [op |-> "into_bytes", field |-> 1, arg |-> v,
                  ret |-> into_bytes(fields[1].spec, v), before |-> <<>>]
    /\ UNCHANGED <<target, bytes, fields, shadow>>

\* from_bytes of the derived enum
DerivedFromBytes ==
    /\ call.op = "derive"
    /\ fields # <<>>
    /\ \E k \in 0 .. (Pow2(fields[1].spec.bits) - 1) :
         call' = [op |-> "from_bytes", field |-> 1, arg |-> ToBits(k),
                  ret |-> from_bytes(fields[1].spec, ToBits(k)), before |-> <<>>]
    /\ UNCHANGED <<target, bytes, fields, shadow>>

NextDerive == DeriveEnum \/ DerivedIntoBytes \/ DerivedFromBytes

SpecDerive == InitDerive /\ [][NextDerive]_vars

\* the smallest k with 2^k >= n
CeilLog2(n) == CHOOSE k \in 0 .. 29 : Pow2(k) >= n /\ \A j \in 0 .. (k - 1) : Pow2(j) < n

\* the larger of two numbers
Max2(a, b) == IF a >= b THEN a ELSE b

\* C24: BITS of a derived enum is max(declared bits, ceil(log2(variants))),
\* and ceil(log2(variants)) when no #[bits] is declared.
C24_EnumBits ==
    fields # <<>> =>
      /\ shadow[1].bits.some =>
           fields[1].spec.bits =
              Max2(shadow[1].bits.value, CeilLog2(Len(shadow[1].discs)))
      /\ ~shadow[1].bits.some =>
           fields[1].spec.bits = CeilLog2(Len(shadow[1].discs))

\* SmallPrime: six variants under #[bits = 4] derive a specifier of 4 bits
C24_Witness ==
    /\ call.op = "derive"
    /\ call.ret.ok
    /\ shadow[1] = [bits |-> Some(4), discs |-> <<2, 3, 5, 7, 11, 13>>]
    /\ fields[1].spec.bits = 4

-----------------------------------------------------------------------------
(* PushBuffer<T> on its own: push_bits on an accumulator with any content. *)
(* fields[1].spec.bits is the width of T, shadow[1] the buffer, bytes the  *)
(* u8 arguments pushed so far.                                             *)

\* pushes per accumulator
MaxPushes == 2

\* the integer types impl_push_bits! is instantiated for
PushWidths == {8, 16, 32, 64, 128}

\* accumulator contents before the first push
AccValues(w) ==
    {{}, {0}, {w - 1}, {0, w - 4}, LowMask(w), {i \in 0 .. (w - 1) : i % 2 = 0}}

\* u8 arguments of push_bits
PushedValues == {{}, {0, 7}, {1, 3, 5}, 0 .. 7}

InitPush ==
    /\ target \in Targets
    /\ \E w \in PushWidths :
        /\ fields = <<[spec |-> PrimSpec(w), offset |-> 0]>>
        /\ \E acc \in AccValues(w) : shadow = <<[ok |-> TRUE, bytes |-> acc]>>
    /\ bytes = <<>>
    /\ call = NoCall

\* buffer.push_bits(amount, v)
PushBitsCall ==
    /\ Len(bytes) < MaxPushes
    /\ shadow[1].ok
    /\ \E amount \in 1 .. 8, v \in PushedValues :
        /\ shadow' = <<push_bits(target, fields[1].spec.bits, shadow[1], amount, v)>>
        /\ bytes' = Append(bytes, v)
        /\ call' = [op |-> "push_bits", field |-> amount, arg |-> v,
                    ret |-> IF shadow'[1].ok THEN Ok({}) ELSE Panic,
                    before |-> shadow[1].bytes]
    /\ UNCHANGED <<target, fields>>

\* buffer.into_bytes()
PushIntoBytes ==
    /\ shadow[1].ok
    /\ call.op = "push_bits"
    /\ call' = [op |-> "into_bytes", field |-> 0, arg |-> {},
                ret |-> Ok(shadow[1].bytes), before |-> shadow[1].bytes]
    /\ UNCHANGED <<target, bytes, fields, shadow>>

NextPush == PushBitsCall \/ PushIntoBytes

SpecPush == InitPush /\ [][NextPush]_vars

\* C28 as stated: push_bits(amount, v) on any accumulator content acc leaves
\* ((acc << amount) | (v & (2^amount - 1))) truncated to W bits.
C28_PushAnyAcc ==
    call.op = "push_bits" =>
        /\ call.ret.ok
        /\ shadow[1].bytes =
              ({i + call.field : i \in call.before} \cap (0 .. (fields[1].spec.bits - 1)))
                 \cup (call.arg \cap (0 .. (call.field - 1)))

\* acc << amount as wrapping_shl computes it: the amount is taken modulo W
WrappingShl(acc, amount, w) ==
    {i + (amount % w) : i \in acc} \cap (0 .. (w - 1))

\* C28 amended: push_bits(amount, v) computes
\* acc.wrapping_shl(amount) | (v & (2^amount - 1)), which is
\* (acc << amount) | (v & (2^amount - 1)) when no set bit of acc is shifted
\* out of the W bits; with debug assertions it panics when the result has
\* fewer set bits than acc and the pushed bits together; for W = 8 and
\* amount = 8 acc is not shifted at all.
C28_PushBits ==
    call.op = "push_bits" =>
       LET w == fields[1].spec.bits
           pushed == call.arg \cap (0 .. (call.field - 1))
           r == WrappingShl(call.before, call.field, w) \cup pushed
           lost == Cardinality(pushed) + Cardinality(call.before) # Cardinality(r)
       IN  /\ call.ret.ok = ~(target.debug /\ lost)
           /\ call.ret.ok => shadow[1].bytes = r
           /\ call.before \cap ((w - call.field) .. (w - 1)) = {} =>
                 /\ call.ret.ok
                 /\ shadow[1].bytes = {i + call.field : i \in call.before} \cup pushed

\* three bits of 0xFF were pushed onto a u128 accumulator with bits 0 and
\* 124 set, in a build with debug assertions
C28_Witness ==
    /\ call.op = "push_bits"
    /\ target.debug
    /\ fields[1].spec.bits = 128
    /\ call.before = {0, 124}
    /\ call.field = 3
    /\ call.arg = 0 .. 7
    /\ shadow[1] = [ok |-> TRUE, bytes |-> {0, 1, 2, 3, 127}]

-----------------------------------------------------------------------------
(* The #[skip] attributes of the fields of a #[bitfield] struct.  fields   *)
(* holds the FieldConfig of every field analysed so far, the last one      *)
(* being the field whose attributes are being read; skip is "None" or a    *)
(* SkipWhich.                                                              *)

\* fields per struct
MaxFields == 3

SkipWhich == {"All", "Getters", "Setters"}

\* FieldConfig::skip that stores `which` over a previous setting it accepts
FieldConfig_skip_Overwrite(skip, which) ==
    IF skip # "None"
    THEN IF which = "All" THEN [ok |-> FALSE, skip |-> skip]
         ELSE IF which = "Getters" /\ skip \in {"Getters", "All"}
              THEN [ok |-> FALSE, skip |-> skip]
         ELSE IF which = "Setters" /\ skip \in {"Setters", "All"}
              THEN [ok |-> FALSE, skip |-> skip]
         ELSE [ok |-> TRUE, skip |-> which]
    ELSE [ok |-> TRUE, skip |-> which]

\* FieldConfig::skip(which, span) on a config whose skip is `skip`:
\* [ok, skip], skip the setting the config holds afterwards
FieldConfig_skip(skip, which) ==
    IF skip # "None"
    THEN IF which = "All" THEN [ok |-> FALSE, skip |-> skip]
         ELSE IF which = "Getters" /\ skip \in {"Getters", "All"}
              THEN [ok |-> FALSE, skip |-> skip]
         ELSE IF which = "Setters" /\ skip \in {"Setters", "All"}
              THEN [ok |-> FALSE, skip |-> skip]
         ELSE [ok |-> TRUE, skip |-> "All"]
    ELSE [ok |-> TRUE, skip |-> which]

\* the SkipWhich one attribute registers: #[skip], #[skip()] and
\* #[skip(getters, setters)] are All
AttrWhich(listed) ==
    IF listed = {} \/ {"Getters", "Setters"} \subseteq listed THEN "All"
    ELSE IF "Getters" \in listed THEN "Getters"
    ELSE "Setters"

InitSkip ==
    /\ target \in Targets
    /\ fields = <<[skip |-> "None"]>>
    /\ bytes = <<>>
    /\ shadow = <<>>
    /\ call = NoCall

\* one #[skip..] attribute of the field being analysed; an error ends the
\* expansion
SkipAttr ==
    /\ call.ret.ok
    /\ \E listed \in SUBSET {"Getters", "Setters"} :
        LET n == Len(fields)
            r == FieldConfig_skip(fields[n].skip, AttrWhich(listed))
        IN  /\ fields' = [fields EXCEPT ![n] = [skip |-> r.skip]]
            /\ call' = [op |-> "skip", field |-> n, arg |-> AttrWhich(listed),
                        ret |-> IF r.ok THEN Ok({}) ELSE CompileError,
                        before |-> fields[n].skip]
    /\ UNCHANGED <<target, bytes, shadow>>

\* the analysis moves on to the next field, with FieldConfig::default()
NextFieldConfig ==
    /\ call.ret.ok
    /\ Len(fields) < MaxFields
    /\ fields' = Append(fields, [skip |-> "None"])
    /\ call' = [op |-> "field", field |-> Len(fields) + 1, arg |-> {},
                ret |-> Ok({}), before |-> <<>>]
    /\ UNCHANGED <<target, bytes, shadow>>

NextSkip == SkipAttr \/ NextFieldConfig

SpecSkip == InitSkip /\ [][NextSkip]_vars

\* C29: a registration on a field that already has a skip setting succeeds
\* only as skip(getters) after skip(setters) or skip(setters) after
\* skip(getters), and the setting is then skip-all; any other one is an
\* error and leaves the setting as it was.
C29_SecondSkip ==
    (call.op = "skip" /\ call.before # "None") =>
        IF {call.before, call.arg} = {"Getters", "Setters"}
        THEN call.ret.ok /\ fields[call.field].skip = "All"
        ELSE ~call.ret.ok /\ fields[call.field].skip = call.before

\* #[skip(setters)] was registered on a field that had #[skip(getters)]
C29_Witness ==
    /\ call.op = "skip"
    /\ call.before = "Getters"
    /\ call.arg = "Setters"
    /\ call.ret.ok
    /\ fields[call.field].skip = "All"

-----------------------------------------------------------------------------
(* Two fields with disjoint bit spans written one after the other, in      *)
(* either order, into a buffer of any prior content.                       *)

\* widths of the two fields
PairBits == {1, 3, 8, 13}

\* bits left unused between the two fields
PairGaps == {0, 3}

\* field A at offset 0..7, field B after it
PairFields ==
    {<<[spec |-> BSpec(n1), offset |-> o],
       [spec |-> BSpec(n2), offset |-> o + n1 + g]>> :
        n1 \in PairBits, n2 \in PairBits, o \in 0 .. 7, g \in PairGaps}

InitPair ==
    /\ target \in Targets
    /\ fields \in PairFields
    /\ bytes \in PriorBuffers(BufLen + 1)
    /\ shadow = <<>>
    /\ call = NoCall

\* write_specifier of `first`, then of `second`; [ok, bytes]
WriteBoth(t, buf, first, v1, second, v2) ==
    LET w1 == write_specifier(t, buf, first.offset, first.spec.bits, v1)
        w2 == write_specifier(t, w1.bytes, second.offset, second.spec.bits, v2)
    IN  [ok |-> w1.ok /\ w2.ok, bytes |-> w2.bytes]

\* fields[i] is written, then the other field; call.arg holds the values by
\* field
WritePair ==
    /\ call.op = "new"
    /\ \E i \in 1 .. 2 :
       \E v1 \in Values(fields[1].spec.bits), v2 \in Values(fields[2].spec.bits) :
        LET v == <<v1, v2>>
            wr == WriteBoth(target, bytes, fields[i], v[i], fields[3 - i], v[3 - i])
        IN  /\ bytes' = wr.bytes
            /\ call' = [op |-> "write_pair", field |-> i, arg |-> v,
                        ret |-> IF wr.ok THEN Ok({}) ELSE Panic, before |-> bytes]
    /\ UNCHANGED <<target, fields, shadow>>

\* the two fields are read back
ReadPair ==
    /\ call.op = "write_pair"
    /\ call.ret.ok
    /\ \E i \in 1 .. 2 :
        LET rd == read_specifier(target, bytes, fields[i].offset, fields[i].spec.bits)
        IN  call' = [op |-> "read_pair", field |-> i, arg |-> {},
                     ret |-> IF rd.ok THEN Ok(rd.val) ELSE Panic, before |-> bytes]
    /\ UNCHANGED <<target, bytes, fields, shadow>>

NextPair == WritePair \/ ReadPair

SpecPair == InitPair /\ [][NextPair]_vars

\* C30: writing two fields with disjoint bit spans leaves the buffer the
\* writes in the opposite order leave, for values in range, also when the
\* fields share a byte.
C30_WritesCommute ==
    call.op = "write_pair" =>
       LET i == call.field
           other == WriteBoth(target, call.before, fields[3 - i], call.arg[3 - i],
                              fields[i], call.arg[i])
       IN  /\ call.ret.ok
           /\ other.ok
           /\ bytes = other.bytes

\* field B, which starts inside the byte field A ends in, was written
\* first, then A, both with all ones, into a zero buffer
C30_Witness ==
    /\ call.op = "write_pair"
    /\ call.field = 2
    /\ fields[1] = [spec |-> BSpec(13), offset |-> 6]
    /\ fields[2] = [spec |-> BSpec(3), offset |-> 19]
    /\ call.arg = <<LowMask(13), LowMask(3)>>
    /\ call.before = [k \in 1 .. (BufLen + 1) |-> {}]
    /\ bytes[3] = 0 .. 5

=============================================================================
